---------------------------- MODULE Spec2Model ----------------------------
(***************************************************************************)
(* Playback controller of motion-svg (src/src/trigger/playback.ts).        *)
(*                                                                         *)
(* The controller is the closure state of createPlayback(); the host is    *)
(* the browser: requestAnimationFrame callbacks run once per frame, all    *)
(* callbacks of one frame with the same timestamp, and setTimeout          *)
(* callbacks run when their delay has elapsed.  Time is counted in whole   *)
(* milliseconds.                                                           *)
(***************************************************************************)
EXTENDS Integers, Sequences, FiniteSets, TLC

(* ------------------------------ bounds -------------------------------- *)
\* tl.duration of the timeline under playback
TlDuration == 2
\* wall-clock horizon: no frame is delivered after this time
MaxNow == 5
\* largest wall time between two frames
MaxElapsed == 2
\* most frame requests outstanding when play()/reverse() is called
MaxPending == 2
\* the loop delay of a loop trigger that has one
LoopDelay == 2
\* largest finite iteration budget of a loop trigger
MaxIterations == 2
\* largest |playbackRate| assigned
MaxRate == 2

(* ----------------------------- constants ------------------------------ *)
\* null of rafId / lastFrameTime (ids are >= 1, timestamps >= 0)
NULL == -1
\* Number.POSITIVE_INFINITY as an iteration budget (budgets are >= 0)
Infinity == -2
\* `iteration` field of an event that carries none
NoIteration == -3
\* no library function has been called
NoCall == [fn |-> "none"]
\* new AnimationStore(): no states, an empty snapshot, no listener, no batch
\* callback in the microtask queue; `notified` lists the listener calls and
\* `flushes` counts the snapshots made by the last operation `op`
NewStore ==
    [_states |-> <<>>, _snapshot |-> <<>>, _dirty |-> FALSE,
     _batchScheduled |-> FALSE, _listeners |-> <<>>, microtasks |-> 0,
     notified |-> <<>>, flushes |-> 0, op |-> [name |-> "new"]]

VARIABLES
    triggerBinding,  \* options.trigger: a TriggerBinding config or NoTrigger
    state,           \* 'idle' | 'playing' | 'paused' | 'finished'
    currentTime,     \* time cursor, ms
    direction,       \* 1 | -1
    playbackRate,    \* _playbackRate
    totalDuration,   \* _totalDuration (effective duration)
    rafId,           \* id of the last frame request, or NULL
    lastFrameTime,   \* timestamp of the previous tick, or NULL
    iterationCount,
    hasStarted,
    now,             \* host wall clock
    rafPending,      \* host: ids of the frame requests not yet run or cancelled
    timers,          \* host: due times of the pending setTimeout callbacks
    events,          \* events delivered to subscribers by the last operation
    updates,         \* timeline times passed to onUpdate by the last operation
    completes,       \* number of onComplete calls of the last operation
    log,             \* repeat/complete events since the iteration counter was last 0
    op,              \* the last operation: [name, arg]
    halted,          \* "pause"/"stop" since that call, "no" after play()/reverse()
    startEmitted,    \* a start event was emitted since creation or the last stop()
    call,            \* the last call of a library function: its arguments and outcome
    store            \* an AnimationStore and the host's microtask queue

\* the controller, its host and what is observed of them
playbackVars == <<triggerBinding, state, currentTime, direction, playbackRate,
                  totalDuration, rafId, lastFrameTime, iterationCount, hasStarted,
                  now, rafPending, timers, events, updates, completes, log, op,
                  halted, startEmitted>>

vars == <<playbackVars, call, store>>

(* ------------------------------ helpers ------------------------------- *)
Abs(x) == IF x < 0 THEN 0 - x ELSE x

Min(a, b) == IF a <= b THEN a ELSE b

Max(a, b) == IF a >= b THEN a ELSE b

RECURSIVE Gcd(_, _)
Gcd(a, b) == IF b = 0 THEN a ELSE Gcd(b, a % b)

\* the non-negative rational n/d in lowest terms
Rat(n, d) == LET g == Gcd(n, d) IN [n |-> n \div g, d |-> d \div g]

(* --------------------------- trigger config --------------------------- *)
NoTrigger == [type |-> "none"]

LoopTrigger(i, dir, dl) ==
    [type |-> "loop", iterations |-> i, direction |-> dir, delay |-> dl]

LoopTriggers(N) ==
    {LoopTrigger(i, dir, dl) :
        i \in (1..N) \cup {Infinity},
        dir \in {"normal", "reverse", "alternate"},
        dl \in {0, LoopDelay}}

Triggers == {NoTrigger, [type |-> "hover"]} \cup LoopTriggers(MaxIterations)

\* triggers of the runs that assign playbackRate and totalDuration
SetterTriggers == {NoTrigger, LoopTrigger(MaxIterations, "alternate", LoopDelay)}

\* triggers of the uninterrupted play-throughs
RunIterations == MaxIterations + 1

RunTriggers == {NoTrigger, [type |-> "click"]} \cup LoopTriggers(RunIterations)

\* a play-through of RunIterations iterations ends before this time, however
\* the frames are spaced: an iteration takes one frame to take the first
\* timestamp, less than TlDuration + MaxElapsed to reach the bound, and the
\* loop delay
RunHorizon == RunIterations * (TlDuration + LoopDelay + 2 * MaxElapsed)

triggerType == IF triggerBinding = NoTrigger THEN "manual" ELSE triggerBinding.type

\* faulty variant: the Infinity default applies to every trigger type
loopIterations_defaultInfinity ==
    IF triggerType = "loop" THEN triggerBinding.iterations ELSE Infinity

loopIterations == IF triggerType = "loop" THEN triggerBinding.iterations ELSE 1

loopDirection == IF triggerType = "loop" THEN triggerBinding.direction ELSE "normal"

loopDelay == IF triggerType = "loop" THEN triggerBinding.delay ELSE 0

\* faulty variant: the budget test is iterationCount > loopIterations
BudgetExhausted_strict(count) == loopIterations # Infinity /\ count > loopIterations

\* iterationCount >= loopIterations, with loopIterations possibly Infinity
BudgetExhausted(count) == loopIterations # Infinity /\ count >= loopIterations

(* -------------------------- controller record ------------------------- *)
\* the closure state together with the host queues and the observations,
\* as one value that the handlers below transform
Ctl ==
    [state |-> state, currentTime |-> currentTime, direction |-> direction,
     playbackRate |-> playbackRate, totalDuration |-> totalDuration,
     rafId |-> rafId, lastFrameTime |-> lastFrameTime,
     iterationCount |-> iterationCount, hasStarted |-> hasStarted,
     rafPending |-> rafPending, timers |-> timers,
     events |-> <<>>, updates |-> <<>>, completes |-> 0, log |-> log,
     startEmitted |-> startEmitted]

Event(s, type, iteration) ==
    [type |-> type, currentTime |-> s.currentTime, iteration |-> iteration]

\* emit(type, extra): every event type has a subscriber
emit(s, type, iteration) ==
    LET e == Event(s, type, iteration)
    IN [s EXCEPT !.events = Append(@, e),
                 !.log = IF type \in {"repeat", "complete"}
                         THEN Append(@, [type |-> type, iteration |-> iteration])
                         ELSE @,
                 !.startEmitted = IF type = "start" THEN TRUE ELSE @]

\* emitUpdate(timeMs): timeMs is a rational
emitUpdate(s, timeMs) == [s EXCEPT !.updates = Append(@, timeMs)]

\* Math.min(currentTime * timeScale, tl.duration), timeScale = tl.duration / _totalDuration;
\* with _totalDuration = 0 the scale is Infinity: 0 * Infinity is NaN (written
\* 0/0) and Math.min(NaN, tl.duration) is NaN, a negative cursor gives -Infinity
mappedTime(s) ==
    IF s.totalDuration = 0
    THEN IF s.currentTime = 0 THEN [n |-> 0, d |-> 0]
         ELSE IF s.currentTime > 0 THEN Rat(TlDuration, 1)
         ELSE [n |-> -1, d |-> 0]
    ELSE IF s.currentTime * TlDuration <= TlDuration * s.totalDuration
    THEN Rat(s.currentTime * TlDuration, s.totalDuration)
    ELSE Rat(TlDuration, 1)

\* host: requestAnimationFrame(tick), the returned id stored in rafId
requestAnimationFrame(s) ==
    LET id == CHOOSE i \in 1..(Cardinality(s.rafPending) + 1) :
                  /\ i \notin s.rafPending
                  /\ \A j \in 1..(i - 1) : j \in s.rafPending
    IN [s EXCEPT !.rafPending = @ \cup {id}, !.rafId = id]

\* host: cancelAnimationFrame(rafId) when rafId is not null, then rafId = null
cancelPending(s) ==
    IF s.rafId # NULL
    THEN [s EXCEPT !.rafPending = @ \ {s.rafId}, !.rafId = NULL]
    ELSE s

\* host: setTimeout(resume, loopDelay) at wall time t
setTimeout(s, t) == [s EXCEPT !.timers = @ \cup {t + loopDelay}]

(* -------------------------------- tick -------------------------------- *)
\* budget exhausted at a bound: state = 'finished', emit('complete'), onComplete()
finish(s) ==
    LET f == emit([s EXCEPT !.state = "finished"], "complete", NoIteration)
    IN [f EXCEPT !.completes = @ + 1]

\* loop direction applied after a repeat at the upper bound
loopDirectionUpper(s) ==
    IF loopDirection = "alternate"
    THEN [s EXCEPT !.direction = -1, !.currentTime = s.totalDuration]
    ELSE IF loopDirection = "reverse"
    THEN [s EXCEPT !.currentTime = s.totalDuration, !.direction = -1]
    ELSE [s EXCEPT !.currentTime = 0]

\* loop direction applied after a repeat at the lower bound
loopDirectionLower(s) ==
    IF loopDirection = "alternate"
    THEN [s EXCEPT !.direction = 1, !.currentTime = 0]
    ELSE s

\* the branch currentTime >= _totalDuration of tick
upperBound(s, t) ==
    LET a == emit(emitUpdate([s EXCEPT !.currentTime = s.totalDuration],
                             Rat(TlDuration, 1)),
                  "frame", NoIteration)
        b == [a EXCEPT !.iterationCount = @ + 1]
    IN IF BudgetExhausted(b.iterationCount)
       THEN finish(b)
       ELSE LET c == loopDirectionUpper(emit(b, "repeat", b.iterationCount))
            IN IF loopDelay > 0
               THEN setTimeout([c EXCEPT !.state = "paused"], t)
               ELSE requestAnimationFrame(c)

\* the branch currentTime <= 0 of tick
lowerBound(s, t) ==
    LET a == emit(emitUpdate([s EXCEPT !.currentTime = 0], Rat(0, 1)),
                  "frame", NoIteration)
        b == [a EXCEPT !.iterationCount = @ + 1]
    IN IF BudgetExhausted(b.iterationCount)
       THEN finish(b)
       ELSE requestAnimationFrame(
                loopDirectionLower(emit(b, "repeat", b.iterationCount)))

\* currentTime += rawDelta * direction * Math.abs(_playbackRate)
advance(s, t) ==
    LET rawDelta == t - s.lastFrameTime
        delta == rawDelta * s.direction * Abs(s.playbackRate)
    IN [s EXCEPT !.lastFrameTime = t, !.currentTime = @ + delta]

\* tick(now) with now = t
tick(s, t) ==
    IF s.state # "playing" THEN s
    ELSE IF s.lastFrameTime = NULL
    THEN requestAnimationFrame([s EXCEPT !.lastFrameTime = t])
    ELSE LET m == advance(s, t)
         IN IF m.currentTime >= m.totalDuration THEN upperBound(m, t)
            ELSE IF m.currentTime <= 0 THEN lowerBound(m, t)
            ELSE requestAnimationFrame(
                     emit(emitUpdate(m, mappedTime(m)), "frame", NoIteration))

\* faulty variant: the timestamp of the tick before the delay is kept
resume_keepsTimestamp(s) ==
    IF s.state = "paused"
    THEN requestAnimationFrame([s EXCEPT !.state = "playing"])
    ELSE s

\* the setTimeout callback of the loop delay
resume(s) ==
    IF s.state = "paused"
    THEN requestAnimationFrame([s EXCEPT !.state = "playing",
                                         !.lastFrameTime = NULL])
    ELSE s

\* the host runs tick k times with the same timestamp t
RECURSIVE runFrame(_, _, _)
runFrame(s, k, t) == IF k = 0 THEN s ELSE runFrame(tick(s, t), k - 1, t)

(* --------------------------- controller API --------------------------- *)
\* faulty variant: start is emitted only when the state was idle or finished
play_startOnlyWhenIdle(s) ==
    LET wasIdle == s.state \in {"idle", "finished"}
        a == IF s.state = "finished"
             THEN [s EXCEPT !.currentTime = IF s.direction = 1 THEN 0
                                            ELSE s.totalDuration,
                            !.iterationCount = 0,
                            !.log = <<>>]
             ELSE s
        b == [a EXCEPT !.state = "playing", !.direction = 1,
                       !.lastFrameTime = NULL]
        c == IF wasIdle
             THEN emit([b EXCEPT !.hasStarted = TRUE], "start", NoIteration)
             ELSE b
    IN requestAnimationFrame(emit(c, "play", NoIteration))

play(s) ==
    LET wasIdle == s.state \in {"idle", "finished"}
        a == IF s.state = "finished"
             THEN [s EXCEPT !.currentTime = IF s.direction = 1 THEN 0
                                            ELSE s.totalDuration,
                            !.iterationCount = 0,
                            !.log = <<>>]
             ELSE s
        b == [a EXCEPT !.state = "playing", !.direction = 1,
                       !.lastFrameTime = NULL]
        c == IF ~b.hasStarted \/ wasIdle
             THEN emit([b EXCEPT !.hasStarted = TRUE], "start", NoIteration)
             ELSE b
    IN requestAnimationFrame(emit(c, "play", NoIteration))

pause(s) ==
    LET a == cancelPending([s EXCEPT !.state = "paused"])
    IN emit([a EXCEPT !.lastFrameTime = NULL], "pause", NoIteration)

\* faulty variant: stop() does not reset the iteration count
stop_keepsIterationCount(s) ==
    LET a == cancelPending([s EXCEPT !.state = "idle", !.currentTime = 0,
                                     !.direction = 1,
                                     !.hasStarted = FALSE, !.log = <<>>,
                                     !.startEmitted = FALSE])
        b == [a EXCEPT !.lastFrameTime = NULL]
    IN emit(emitUpdate(b, Rat(0, 1)), "stop", NoIteration)

stop(s) ==
    LET a == cancelPending([s EXCEPT !.state = "idle", !.currentTime = 0,
                                     !.direction = 1, !.iterationCount = 0,
                                     !.hasStarted = FALSE, !.log = <<>>,
                                     !.startEmitted = FALSE])
        b == [a EXCEPT !.lastFrameTime = NULL]
    IN emit(emitUpdate(b, Rat(0, 1)), "stop", NoIteration)

\* faulty variant: seek() clamps at the upper end only
seek_noLowerClamp(s, timeMs) ==
    LET a == [s EXCEPT !.currentTime = Min(timeMs, s.totalDuration)]
    IN emit(emitUpdate(a, mappedTime(a)), "seek", NoIteration)

seek(s, timeMs) ==
    LET a == [s EXCEPT !.currentTime = Max(0, Min(timeMs, s.totalDuration))]
    IN emit(emitUpdate(a, mappedTime(a)), "seek", NoIteration)

\* faulty variant: reverse() of a controller at rest requests no tick
reverse_noRequest(s) ==
    LET a == [s EXCEPT !.direction = IF s.direction = 1 THEN -1 ELSE 1]
        b == IF a.state # "playing"
             THEN [a EXCEPT !.state = "playing", !.lastFrameTime = NULL]
             ELSE a
    IN emit(b, "reverse", NoIteration)

reverse(s) ==
    LET a == [s EXCEPT !.direction = IF s.direction = 1 THEN -1 ELSE 1]
        b == IF a.state # "playing"
             THEN requestAnimationFrame([a EXCEPT !.state = "playing",
                                                  !.lastFrameTime = NULL])
             ELSE a
    IN emit(b, "reverse", NoIteration)

setPlaybackRate(s, rate) == [s EXCEPT !.playbackRate = rate]

\* faulty variant: the cursor is not rescaled
setTotalDuration_keepsCursor(s, d) == [s EXCEPT !.totalDuration = Max(0, d)]

\* set totalDuration(d); progress * _totalDuration is computed exactly
setTotalDuration(s, d) ==
    LET old == s.totalDuration
        new == Max(0, d)
    IN [s EXCEPT !.totalDuration = new,
                 !.currentTime = IF old > 0 THEN (s.currentTime * new) \div old
                                 ELSE 0]

(* ------------------------------ actions ------------------------------- *)
\* the next state is the controller record s, after operation o
Becomes(s, o) ==
    /\ state' = s.state
    /\ currentTime' = s.currentTime
    /\ direction' = s.direction
    /\ playbackRate' = s.playbackRate
    /\ totalDuration' = s.totalDuration
    /\ rafId' = s.rafId
    /\ lastFrameTime' = s.lastFrameTime
    /\ iterationCount' = s.iterationCount
    /\ hasStarted' = s.hasStarted
    /\ rafPending' = s.rafPending
    /\ timers' = s.timers
    /\ events' = s.events
    /\ updates' = s.updates
    /\ completes' = s.completes
    /\ log' = s.log
    /\ startEmitted' = s.startEmitted
    /\ op' = o
    /\ UNCHANGED <<triggerBinding, call, store>>

Op(name, arg) == [name |-> name, arg |-> arg]

\* arguments of seek(): below 0, inside, at the intrinsic end, beyond every end
SeekTimes == {-1, 1, TlDuration, 2 * TlDuration + 1}

\* values assigned to playbackRate (non-zero, both signs)
Rates == {1, MaxRate, -MaxRate}

CanRequest == Cardinality(rafPending) < MaxPending

\* the state after createPlayback({timeline, trigger}), trigger drawn from T
Created(T) ==
    /\ triggerBinding \in T
    /\ state = "idle"
    /\ currentTime = 0
    /\ direction = 1
    /\ playbackRate = 1
    /\ totalDuration = TlDuration
    /\ rafId = NULL
    /\ lastFrameTime = NULL
    /\ iterationCount = 0
    /\ hasStarted = FALSE
    /\ now = 0
    /\ rafPending = {}
    /\ timers = {}
    /\ events = <<>>
    /\ updates = <<>>
    /\ completes = 0
    /\ log = <<>>
    /\ op = Op("create", 0)
    /\ halted = "no"
    /\ startEmitted = FALSE

Init == Created(Triggers) /\ call = NoCall /\ store = NewStore

Play ==
    /\ CanRequest
    /\ Becomes(play(Ctl), Op("play", 0))
    /\ halted' = "no"
    /\ UNCHANGED now

Pause ==
    /\ Becomes(pause(Ctl), Op("pause", 0))
    /\ halted' = "pause"
    /\ UNCHANGED now

Stop ==
    /\ Becomes(stop(Ctl), Op("stop", 0))
    /\ halted' = "stop"
    /\ UNCHANGED now

Seek ==
    \E timeMs \in SeekTimes :
        /\ Becomes(seek(Ctl, timeMs), Op("seek", timeMs))
        /\ UNCHANGED <<now, halted>>

Reverse ==
    /\ state # "playing" => CanRequest
    /\ Becomes(reverse(Ctl), Op("reverse", 0))
    /\ halted' = "no"
    /\ UNCHANGED now

SetPlaybackRate ==
    \E rate \in Rates :
        /\ Becomes(setPlaybackRate(Ctl, rate), Op("playbackRate", 0))
        /\ UNCHANGED <<now, halted>>

\* d is drawn from the durations for which progress * d is a whole number
SetTotalDuration ==
    \E d \in {TlDuration, 2 * TlDuration} :
        /\ totalDuration > 0 => (currentTime * d) % totalDuration = 0
        /\ Becomes(setTotalDuration(Ctl, d), Op("totalDuration", 0))
        /\ UNCHANGED <<now, halted>>

\* the host delivers a frame e ms after the previous step, not later than
\* the horizon h: every pending frame request runs tick with the timestamp
\* of the frame.  A timer that is due runs before time passes.
FrameWithin(h) ==
    \E e \in 1..MaxElapsed :
        /\ now + e <= h
        /\ \A t \in timers : t >= now + e
        /\ now' = now + e
        /\ Becomes(runFrame([Ctl EXCEPT !.rafPending = {}],
                            Cardinality(rafPending), now + e),
                   Op("frame", 0))
        /\ UNCHANGED halted

Frame == FrameWithin(MaxNow)

\* the host runs a loop-delay timer that is due
TimerFire ==
    \E t \in timers :
        /\ t <= now
        /\ Becomes(resume([Ctl EXCEPT !.timers = @ \ {t}]), Op("timer", 0))
        /\ UNCHANGED <<now, halted>>

\* calls of the controller API, frames and timers in any order
Next ==
    \/ Play
    \/ Pause
    \/ Stop
    \/ Seek
    \/ Reverse
    \/ Frame
    \/ TimerFire

Spec == Init /\ [][Next]_vars

\* the same with assignments to playbackRate and totalDuration
InitSetters == Created(SetterTriggers) /\ call = NoCall /\ store = NewStore

NextSetters ==
    \/ Next
    \/ SetPlaybackRate
    \/ SetTotalDuration

SpecSetters == InitSetters /\ [][NextSetters]_vars

\* totalDuration = d with d <= 0: the effective duration becomes 0
SetTotalDurationZero ==
    \E d \in {0, -1} :
        /\ Becomes(setTotalDuration(Ctl, d), Op("totalDuration", d))
        /\ UNCHANGED <<now, halted>>

\* calls, frames and every assignment to playbackRate and totalDuration, on
\* a controller without a loop delay
NextDurations ==
    \/ Play
    \/ Pause
    \/ Stop
    \/ Seek
    \/ Reverse
    \/ Frame
    \/ SetPlaybackRate
    \/ SetTotalDuration
    \/ SetTotalDurationZero

InitDurations ==
    /\ Created({NoTrigger, LoopTrigger(Infinity, "alternate", 0)})
    /\ call = NoCall
    /\ store = NewStore

SpecDurations == InitDurations /\ [][NextDurations]_vars

\* one uninterrupted play-through: seek() and playbackRate are set on the
\* idle controller, play() is called once, and from then on only the host
\* acts; the host keeps delivering frames and runs due timers
InitRun == Created(RunTriggers) /\ call = NoCall /\ store = NewStore

SeekIdle == state = "idle" /\ Seek

SetPlaybackRateIdle == state = "idle" /\ SetPlaybackRate

PlayIdle == state = "idle" /\ Play

\* the clock of a play-through starts at play()
FrameRun == state # "idle" /\ FrameWithin(RunHorizon)

NextRun ==
    \/ SeekIdle
    \/ SetPlaybackRateIdle
    \/ PlayIdle
    \/ FrameRun
    \/ TimerFire

SpecRun ==
    /\ InitRun
    /\ [][NextRun]_vars
    /\ WF_vars(PlayIdle)
    /\ WF_vars(FrameRun)
    /\ WF_vars(TimerFire)

(* ------------------------------- claims ------------------------------- *)
\* the operation of the step was a frame in which tick ran exactly once
OneTick == op'.name = "frame" /\ Cardinality(rafPending) = 1

\* the events of type ty delivered by the step
Emitted(ty) == {i \in 1..Len(events') : events'[i].type = ty}

\* C1: after pause() or stop() has returned, and until the next play() or
\* reverse(), a frame tick or a loop-delay timer callback changes neither
\* the state nor the time cursor, calls onUpdate never and emits no event.
C1_StaleCallbacksInert ==
    [][(halted # "no" /\ op'.name \in {"frame", "timer"})
          => /\ state' = state
             /\ currentTime' = currentTime
             /\ updates' = <<>>
             /\ events' = <<>>]_vars

\* the repeat/complete events of a complete play-through of N iterations
ExpectedLog(N) ==
    [i \in 1..N |-> IF i < N THEN [type |-> "repeat", iteration |-> i]
                    ELSE [type |-> "complete", iteration |-> NoIteration]]

IsPrefix(p, q) == Len(p) <= Len(q) /\ \A i \in 1..Len(p) : p[i] = q[i]

FiniteLoop == triggerType = "loop" /\ loopIterations # Infinity

InfiniteLoop == triggerType = "loop" /\ loopIterations = Infinity

\* the controller of a play-through never waits for nothing: while playing
\* a tick is requested, while parked the delay timer is set
Ticking ==
    /\ state = "playing" => rafPending # {}
    /\ state = "paused" => timers # {} /\ \A t \in timers : t >= now

\* C2: an uninterrupted play-through of a loop trigger with N iterations
\* emits repeat with iteration 1, ..., N-1 in that order, then one complete,
\* and ends in finished (it keeps ticking and is finished RunHorizon ms
\* after play() at the latest); with Infinity iterations it emits no
\* complete, never enters finished, and its repeats carry 1, 2, 3, ...
C2_LoopEmitsRepeatsThenComplete ==
    /\ [](FiniteLoop
            => /\ IsPrefix(log, ExpectedLog(loopIterations))
               /\ state = "finished" <=> log = ExpectedLog(loopIterations))
    /\ [](InfiniteLoop
            => /\ state # "finished"
               /\ \A i \in 1..Len(log) :
                      log[i] = [type |-> "repeat", iteration |-> i])
    /\ [](triggerType = "loop" => Ticking)
    /\ [](FiniteLoop /\ now = RunHorizon => state = "finished")

C2_Witness ==
    /\ state = "finished"
    /\ triggerBinding = LoopTrigger(RunIterations, "alternate", LoopDelay)
    /\ log = ExpectedLog(RunIterations)
    /\ Len(log) >= 3

\* C3: the state changes only along idle->playing, playing->paused,
\* paused->playing, playing->finished, finished->playing (by play() or
\* reverse()) and any->idle by stop().
C3_StateEdges ==
    [][state' # state
          => \/ state' = "idle" /\ op'.name = "stop"
             \/ state = "idle" /\ state' = "playing"
             \/ state = "playing" /\ state' = "paused"
             \/ state = "paused" /\ state' = "playing"
             \/ state = "playing" /\ state' = "finished"
             \/ /\ state = "finished" /\ state' = "playing"
                /\ op'.name \in {"play", "reverse"}]_vars

\* C4: when a tick hits a time bound with iterations remaining (it emits
\* repeat), alternate flips the direction and leaves the cursor at the
\* bound that was hit, reverse flips the direction and puts the cursor at
\* the far bound (the end of the effective duration), normal keeps the
\* direction and puts the cursor at 0.
C4_LoopDirectionApplied ==
    [][(OneTick /\ Emitted("repeat") # {})
          => LET hit == events'[CHOOSE i \in Emitted("repeat") : TRUE].currentTime
                 far == totalDuration
             IN CASE loopDirection = "alternate" ->
                       direction' = -direction /\ currentTime' = hit
                  [] loopDirection = "reverse" ->
                       direction' = -direction /\ currentTime' = far
                  [] OTHER ->
                       direction' = direction /\ currentTime' = 0]_vars

\* C5: with a loop delay D > 0, a tick that emits repeat (at either bound)
\* leaves the controller paused with the timer set for D ms later; while it
\* is parked no frame moves the cursor or emits an event; and the timer
\* puts it back to playing with a tick requested.
Parked == state = "paused" /\ halted = "no" /\ timers # {}

C5_DelayAfterEveryRepeat ==
    /\ [][(loopDelay > 0 /\ OneTick /\ Emitted("repeat") # {})
             => state' = "paused" /\ (now' + loopDelay) \in timers']_vars
    /\ [][(loopDelay > 0 /\ Parked /\ op'.name = "frame")
             => currentTime' = currentTime /\ events' = <<>>]_vars
    /\ [][(loopDelay > 0 /\ Parked /\ op'.name = "timer")
             => state' = "playing" /\ rafPending' # {}]_vars

\* the types of the events delivered by the step, in order
Types == [i \in 1..Len(events') |-> events'[i].type]

\* an advancing tick: the controller is playing and has a previous timestamp
Advancing == OneTick /\ state = "playing" /\ lastFrameTime # NULL

\* C6: while playing forward, a tick moves the cursor by elapsed x
\* |playbackRate|: toward 0 when playbackRate is negative, toward the
\* effective duration when it is positive (stopping at the bound).
C6_NegativeRateRunsBackward ==
    [][(Advancing /\ direction = 1 /\ Emitted("repeat") = {})
          => LET step == (now' - lastFrameTime) * Abs(playbackRate)
             IN IF playbackRate < 0
                THEN currentTime' = Max(0, currentTime - step)
                ELSE currentTime' = Min(totalDuration, currentTime + step)]_vars

\* C7: with no trigger or a non-loop trigger and a positive playback rate,
\* an uninterrupted play() reaches finished (it keeps ticking and is
\* finished RunHorizon ms after play() at the latest); that tick emits
\* one complete event, calls onComplete once, emits no repeat and requests
\* no tick; afterwards the host produces no update and no event.
NonLoop == triggerType # "loop" /\ playbackRate > 0

C7_NonLoopFinishesOnce ==
    /\ [](NonLoop => Ticking)
    /\ [](NonLoop /\ now = RunHorizon => state = "finished")
    /\ [](NonLoop => IsPrefix(log, ExpectedLog(1)))
    /\ [][(NonLoop /\ state # "finished" /\ state' = "finished")
             => /\ Cardinality(Emitted("complete")) = 1
                /\ completes' = 1
                /\ Emitted("repeat") = {}
                /\ rafPending' = {}]_vars
    /\ [][(NonLoop /\ state = "finished")
             => /\ state' = "finished"
                /\ updates' = <<>>
                /\ events' = <<>>
                /\ completes' = 0
                /\ rafPending' = {}]_vars

C7_Witness ==
    /\ triggerBinding = [type |-> "click"]
    /\ state = "finished"
    /\ op.name = "frame"
    /\ events = <<>>
    /\ log = ExpectedLog(1)
    /\ now = RunHorizon

\* C8: play() leaves the controller playing forward and emits exactly one
\* play event, preceded by exactly one start event exactly when the state
\* before the call was idle or finished or no start event was emitted since
\* creation or the last stop().
C8_PlayEmitsStartAndPlay ==
    [][op'.name = "play"
          => /\ state' = "playing"
             /\ direction' = 1
             /\ Types = IF state \in {"idle", "finished"} \/ ~startEmitted
                        THEN <<"start", "play">>
                        ELSE <<"play">>]_vars

C8_Witness ==
    /\ op.name = "play"
    /\ state = "playing"
    /\ Len(events) = 1
    /\ events[1].type = "play"
    /\ currentTime > 0
    /\ iterationCount > 0

\* C9: stop() leaves the controller idle at time 0, progress 0, direction
\* forward, iteration count 0, calls onUpdate once with timeline time 0 and
\* emits one stop event; a play() that follows starts at time 0, forward,
\* with the iteration count at 0.
progress == IF totalDuration > 0 THEN Rat(currentTime, totalDuration) ELSE Rat(0, 1)

C9_StopResets ==
    /\ [][op'.name = "stop"
             => /\ state' = "idle"
                /\ currentTime' = 0
                /\ progress' = Rat(0, 1)
                /\ direction' = 1
                /\ iterationCount' = 0
                /\ updates' = <<Rat(0, 1)>>
                /\ Types = <<"stop">>]_vars
    /\ [][(op.name = "stop" /\ op'.name = "play")
             => /\ state' = "playing"
                /\ currentTime' = 0
                /\ direction' = 1
                /\ iterationCount' = 0]_vars

C9_Witness ==
    /\ op.name = "play"
    /\ state = "playing"
    /\ currentTime = 0
    /\ iterationCount = 0
    /\ timers # {}
    /\ Len(events) = 2

\* C10: seek(ms) sets the cursor to ms clamped into [0, effectiveDuration],
\* calls onUpdate once with cursor x tl.duration / effectiveDuration, emits
\* one seek event and leaves state, direction, iteration count and playback
\* rate unchanged.
C10_SeekClampsAndUpdates ==
    [][op'.name = "seek"
          => /\ currentTime' = Max(0, Min(op'.arg, totalDuration))
             /\ Len(updates') = 1
             /\ updates'[1].n * totalDuration = currentTime' * TlDuration * updates'[1].d
             /\ Types = <<"seek">>
             /\ UNCHANGED <<state, direction, iterationCount, playbackRate,
                            totalDuration>>]_vars

C10_Witness ==
    /\ op.name = "seek"
    /\ state = "playing"
    /\ totalDuration = 2 * TlDuration
    /\ currentTime = 1
    /\ direction = -1
    /\ updates = <<Rat(1, 2)>>

\* C11: totalDuration = d with d > 0, while the effective duration is > 0,
\* keeps the normalized progress (cursor / effective duration) and leaves
\* state, direction and iteration count unchanged.
C11_TotalDurationKeepsProgress ==
    [][(op'.name = "totalDuration" /\ totalDuration > 0)
          => /\ totalDuration' > 0
             /\ currentTime' * totalDuration = currentTime * totalDuration'
             /\ UNCHANGED <<state, direction, iterationCount>>]_vars

C11_Witness ==
    /\ op.name = "totalDuration"
    /\ totalDuration = 2 * TlDuration
    /\ currentTime = 2
    /\ state = "playing"
    /\ direction = -1
    /\ iterationCount > 0

\* C12: reverse() negates the direction, emits one reverse event and leaves
\* the cursor; a playing controller stays playing with no new request, any
\* other becomes playing with one tick requested and no previous timestamp;
\* a tick that advances moves the cursor in the current direction; two
\* consecutive reverse() calls restore the direction.
C12_ReverseFlipsDirection ==
    /\ [][op'.name = "reverse"
             => /\ direction' = -direction
                /\ Types = <<"reverse">>
                /\ currentTime' = currentTime
                /\ state' = "playing"
                /\ IF state = "playing"
                   THEN rafPending' = rafPending
                   ELSE /\ Cardinality(rafPending') = Cardinality(rafPending) + 1
                        /\ lastFrameTime' = NULL]_vars
    /\ [][(Advancing /\ Emitted("repeat") = {})
             => (currentTime' - currentTime) * direction >= 0]_vars
    /\ [][(op.name = "reverse" /\ op'.name = "reverse")
             => direction' = -direction /\ -direction' = direction]_vars

C12_Witness ==
    /\ op.name = "frame"
    /\ state = "playing"
    /\ direction = -1
    /\ currentTime = 1
    /\ totalDuration = TlDuration
    /\ iterationCount = 0
    /\ triggerBinding = NoTrigger

(* ====================================================================== *)
(* Pure functions of the library: easing, interpolation, path morphing,   *)
(* timeline() and trigger().  JavaScript numbers are modelled as exact    *)
(* rationals [n, d]; an optional value is <<>> (undefined) or <<v>>.      *)
(* ====================================================================== *)

(* -------------------------- exact arithmetic -------------------------- *)
\* the rational n/d in lowest terms with a positive denominator (NaN for d = 0)
Q(n, d) ==
    LET g == Gcd(Abs(n), Abs(d))
        s == IF d < 0 THEN -1 ELSE 1
    IN IF d = 0 THEN [n |-> 0, d |-> 0]
       ELSE [n |-> (s * n) \div g, d |-> (s * d) \div g]

\* NaN: the outcome of every operation one of whose operands is NaN
NaN == [n |-> 0, d |-> 0]

\* the number i
Num(i) == [n |-> i, d |-> 1]

QAdd(a, b) == Q(a.n * b.d + b.n * a.d, a.d * b.d)

QSub(a, b) == Q(a.n * b.d - b.n * a.d, a.d * b.d)

QMul(a, b) == Q(a.n * b.n, a.d * b.d)

\* a / b for b # 0
QDiv(a, b) == Q(a.n * b.d, a.d * b.n)

QLess(a, b) == a.n * b.d < b.n * a.d

QLeq(a, b) == a.n * b.d <= b.n * a.d

QAbs(a) == [n |-> Abs(a.n), d |-> a.d]

\* Math.round: the nearest integer, halves towards +Infinity
MathRound(a) == IF a = NaN THEN NaN ELSE Num((2 * a.n + a.d) \div (2 * a.d))

\* a + (b - a) * t
lerp(a, b, t) == QAdd(a, QMul(QSub(b, a), t))

(* ------------------------------- values ------------------------------- *)
undefined == <<>>

Some(v) == <<v>>

Val(o) == o[1]

(* ------------------------------- easing ------------------------------- *)
linear(t) == t

easeInQuad(t) == QMul(t, t)

easeOutQuad(t) ==
    QSub(Num(1), QMul(QSub(Num(1), t), QSub(Num(1), t)))

easeInCubic(t) == QMul(t, QMul(t, t))

\* getEasingFunction(curve)(t), curve an optional easing name
getEasingFunction(curve, t) ==
    IF curve = undefined THEN linear(t)
    ELSE CASE Val(curve) = "easeInQuad" -> easeInQuad(t)
           [] Val(curve) = "easeOutQuad" -> easeOutQuad(t)
           [] Val(curve) = "easeInCubic" -> easeInCubic(t)
           [] OTHER -> linear(t)

(* ------------------------------- colors ------------------------------- *)
\* A string is the sequence of its characters.
startsWith(s, prefix) ==
    Len(s) >= Len(prefix) /\ SubSeq(s, 1, Len(prefix)) = prefix

HexDigits ==
    <<"0", "1", "2", "3", "4", "5", "6", "7", "8", "9",
      "a", "b", "c", "d", "e", "f">>

UpperHexDigits == <<"A", "B", "C", "D", "E", "F">>

IsHexDigit(c) ==
    \/ \E i \in 1..16 : HexDigits[i] = c
    \/ \E i \in 1..6 : UpperHexDigits[i] = c

HexValue(c) ==
    CHOOSE v \in 0..15 :
        \/ HexDigits[v + 1] = c
        \/ v >= 10 /\ UpperHexDigits[v - 9] = c

\* parseInt(c1 + c2, 16): the longest hexadecimal prefix, NaN when there is none
parseInt16(c1, c2) ==
    IF ~IsHexDigit(c1) THEN NaN
    ELSE IF ~IsHexDigit(c2) THEN Num(HexValue(c1))
    ELSE Num(16 * HexValue(c1) + HexValue(c2))

\* the channels of '#rgb' / '#rrggbb' (the '#' optional), or undefined (null)
parseHexToRgb(hex) ==
    LET h == IF Len(hex) > 0 /\ hex[1] = "#" THEN Tail(hex) ELSE hex
    IN IF Len(h) = 3
         THEN Some(<<parseInt16(h[1], h[1]), parseInt16(h[2], h[2]),
                     parseInt16(h[3], h[3])>>)
       ELSE IF Len(h) = 6
         THEN Some(<<parseInt16(h[1], h[2]), parseInt16(h[3], h[4]),
                     parseInt16(h[5], h[6])>>)
       ELSE undefined

\* Math.max(0, Math.min(255, Math.round(v)))
clamp(v) ==
    LET r == MathRound(v)
    IN IF r = NaN THEN NaN
       ELSE IF QLess(r, Num(0)) THEN Num(0)
       ELSE IF QLess(Num(255), r) THEN Num(255)
       ELSE r

\* clamp(v).toString(16).padStart(2, '0')
hex(v) ==
    LET c == clamp(v)
    IN IF c = NaN THEN <<"N", "a", "N">>
       ELSE <<HexDigits[(c.n \div 16) + 1], HexDigits[(c.n % 16) + 1]>>

rgbToHex(r, g, b) == <<"#">> \o hex(r) \o hex(g) \o hex(b)

Half == Q(1, 2)

\* lerpColor of two strings: an optional string
lerpColor(a, b, t) ==
    LET rgbA == parseHexToRgb(a)
        rgbB == parseHexToRgb(b)
    IN IF a = <<>> /\ b = <<>> THEN undefined
       ELSE IF a = <<>> THEN Some(b)
       ELSE IF b = <<>> THEN Some(a)
       ELSE IF a = b THEN Some(a)
       ELSE IF rgbA = undefined \/ rgbB = undefined
         THEN Some(IF QLess(t, Half) THEN a ELSE b)
       ELSE Some(rgbToHex(lerp(Val(rgbA)[1], Val(rgbB)[1], t),
                          lerp(Val(rgbA)[2], Val(rgbB)[2], t),
                          lerp(Val(rgbA)[3], Val(rgbB)[3], t)))

\* {color, gradient}: both optional
ColorResult(color, gradient) == [color |-> color, gradient |-> gradient]

\* gradients.find(g => g.id === id): interpolateKeyframes is called without
\* opts.gradients, so the list searched is empty
resolveGradient(ref) == undefined

resolveResult(value) == ColorResult(Some(value), undefined)

UrlPrefix == <<"u", "r", "l", "(">>

lerpColorOrGradient(a, b, t) ==
    LET aIsGrad == startsWith(a, UrlPrefix)
        bIsGrad == startsWith(b, UrlPrefix)
    IN IF a = <<>> /\ b = <<>> THEN ColorResult(undefined, undefined)
       ELSE IF a = <<>> THEN resolveResult(b)
       ELSE IF b = <<>> THEN resolveResult(a)
       ELSE IF a = b THEN resolveResult(a)
       ELSE IF ~aIsGrad /\ ~bIsGrad
         THEN ColorResult(lerpColor(a, b, t), undefined)
       ELSE \* no gradient resolves: snap
            ColorResult(Some(IF QLess(t, Half) THEN a ELSE b), undefined)

(* ---------------------------- path morphing --------------------------- *)
\* A path string is [tokens, spelling].  tokens is what d.split(CMD_RE)
\* keeps: a command letter is [cmd |-> letter, nums |-> <<>>], a non-blank
\* stretch between letters is [cmd |-> "", nums |-> the numbers in it].
\* spelling tells texts with the same tokens apart; "canonical" is the text
\* lerpPath writes.  Commands S, Q, T and A do not occur.
Letter(c) == [cmd |-> c, nums |-> <<>>]

Numbers(ns) == [cmd |-> "", nums |-> ns]

PathString(tokens, spelling) == [tokens |-> tokens, spelling |-> spelling]

CommandLetters == {"M", "m", "L", "l", "H", "h", "V", "v", "C", "c", "Z", "z"}

toUpperCase(c) ==
    CASE c = "m" -> "M" [] c = "l" -> "L" [] c = "h" -> "H"
      [] c = "v" -> "V" [] c = "c" -> "C" [] c = "z" -> "Z"
      [] OTHER -> c

paramCounts(type) ==
    CASE type = "M" -> 2 [] type = "L" -> 2 [] type = "H" -> 1
      [] type = "V" -> 1 [] type = "C" -> 6 [] type = "Z" -> 0

PathCommand(type, params) == [type |-> type, params |-> params]

toAbsolute(type, params, curX, curY, isRelative) ==
    IF ~isRelative THEN params
    ELSE CASE type \in {"M", "L"} ->
                <<QAdd(params[1], curX), QAdd(params[2], curY)>>
           [] type = "H" -> <<QAdd(params[1], curX)>>
           [] type = "V" -> <<QAdd(params[1], curY)>>
           [] type = "C" ->
                <<QAdd(params[1], curX), QAdd(params[2], curY),
                  QAdd(params[3], curX), QAdd(params[4], curY),
                  QAdd(params[5], curX), QAdd(params[6], curY)>>
           [] OTHER -> params

\* the cursor of parsePathD after a command of this type with these parameters
updateCursor(st, type, abs) ==
    CASE type = "M" -> [st EXCEPT !.curX = abs[1], !.curY = abs[2],
                                  !.startX = abs[1], !.startY = abs[2]]
      [] type = "L" -> [st EXCEPT !.curX = abs[1], !.curY = abs[2]]
      [] type = "H" -> [st EXCEPT !.curX = abs[1]]
      [] type = "V" -> [st EXCEPT !.curY = abs[1]]
      [] type = "C" -> [st EXCEPT !.curX = abs[5], !.curY = abs[6]]
      [] OTHER -> st

\* the loop over the parameter groups of one command, from offset j
RECURSIVE parseGroups(_, _, _, _, _)
parseGroups(type, isRelative, nums, j, st) ==
    LET count == paramCounts(type)
        group == SubSeq(nums, j + 1, j + count)
        abs == toAbsolute(type, group, st.curX, st.curY, isRelative)
        implicitType == IF type = "M" /\ j + count > count THEN "L" ELSE type
        pushed == [st EXCEPT !.commands = Append(@, PathCommand(implicitType, abs))]
    IN IF ~(j < Len(nums) \/ j = 0) THEN st
       ELSE IF Len(nums) - j < count THEN st
       ELSE parseGroups(type, isRelative, nums, j + count,
                        updateCursor(pushed, type, abs))

\* the loop over the tokens, from index i
RECURSIVE parseTokens(_, _, _)
parseTokens(tokens, i, st) ==
    LET letter == tokens[i].cmd
        type == toUpperCase(letter)
        isRelative == letter # type
        nums == IF i + 1 <= Len(tokens) THEN tokens[i + 1].nums ELSE <<>>
    IN IF i > Len(tokens) THEN st.commands
       ELSE IF letter \notin CommandLetters THEN parseTokens(tokens, i + 1, st)
       ELSE IF type = "Z"
         THEN parseTokens(tokens, i + 2,
                  [st EXCEPT !.commands = Append(@, PathCommand("Z", <<>>)),
                             !.curX = st.startX, !.curY = st.startY])
       ELSE parseTokens(tokens, i + 2, parseGroups(type, isRelative, nums, 0, st))

parsePathD(d) ==
    parseTokens(d.tokens, 1,
                [commands |-> <<>>, curX |-> Num(0), curY |-> Num(0),
                 startX |-> Num(0), startY |-> Num(0)])

CubicSegment(cx1, cy1, cx2, cy2, x, y) ==
    [cx1 |-> cx1, cy1 |-> cy1, cx2 |-> cx2, cy2 |-> cy2, x |-> x, y |-> y]

lineToCubic(x1, y1, x2, y2) ==
    CubicSegment(QAdd(x1, QDiv(QSub(x2, x1), Num(3))),
                 QAdd(y1, QDiv(QSub(y2, y1), Num(3))),
                 QAdd(x1, QDiv(QMul(Num(2), QSub(x2, x1)), Num(3))),
                 QAdd(y1, QDiv(QMul(Num(2), QSub(y2, y1)), Num(3))),
                 x2, y2)

\* the loop of normalizeToCubic over the commands, from index i
RECURSIVE normalizeFrom(_, _, _)
normalizeFrom(commands, i, st) ==
    LET cmd == commands[i]
        p == cmd.params
        push(seg) == [st EXCEPT !.segments = Append(@, seg)]
    IN IF i > Len(commands) THEN st
       ELSE normalizeFrom(commands, i + 1,
              CASE cmd.type = "M" ->
                     [st EXCEPT !.curX = p[1], !.curY = p[2],
                                !.startX = p[1], !.startY = p[2],
                                !.pathStartX = p[1], !.pathStartY = p[2]]
                [] cmd.type = "L" ->
                     [push(lineToCubic(st.curX, st.curY, p[1], p[2]))
                        EXCEPT !.curX = p[1], !.curY = p[2]]
                [] cmd.type = "H" ->
                     [push(lineToCubic(st.curX, st.curY, p[1], st.curY))
                        EXCEPT !.curX = p[1]]
                [] cmd.type = "V" ->
                     [push(lineToCubic(st.curX, st.curY, st.curX, p[1]))
                        EXCEPT !.curY = p[1]]
                [] cmd.type = "C" ->
                     [push(CubicSegment(p[1], p[2], p[3], p[4], p[5], p[6]))
                        EXCEPT !.curX = p[5], !.curY = p[6]]
                [] cmd.type = "Z" ->
                     [(IF st.curX # st.startX \/ st.curY # st.startY
                         THEN push(lineToCubic(st.curX, st.curY, st.startX, st.startY))
                         ELSE st)
                        EXCEPT !.curX = st.startX, !.curY = st.startY])

NormalizedPath(startX, startY, segments, closed) ==
    [startX |-> startX, startY |-> startY, segments |-> segments, closed |-> closed]

normalizeToCubic(commands) ==
    LET st == normalizeFrom(commands, 1,
                  [curX |-> Num(0), curY |-> Num(0),
                   startX |-> Num(0), startY |-> Num(0),
                   pathStartX |-> Num(0), pathStartY |-> Num(0),
                   segments |-> <<>>])
    IN NormalizedPath(st.pathStartX, st.pathStartY, st.segments,
                      Len(commands) > 0 /\ commands[Len(commands)].type = "Z")

\* the integer square root
ISqrt(k) == CHOOSE r \in 0..k : r * r <= k /\ (r + 1) * (r + 1) > k

\* Math.sqrt of q >= 0: exact when q is the square of a rational, to two
\* decimals otherwise
Sqrt(q) ==
    LET rn == ISqrt(q.n)
        rd == ISqrt(q.d)
    IN IF rn * rn = q.n /\ rd * rd = q.d THEN Q(rn, rd)
       ELSE Q(ISqrt((q.n * 10000) \div q.d), 100)

\* Math.hypot(dx, dy)
hypot(dx, dy) ==
    IF dy.n = 0 THEN QAbs(dx)
    ELSE IF dx.n = 0 THEN QAbs(dy)
    ELSE Sqrt(QAdd(QMul(dx, dx), QMul(dy, dy)))

segmentLength(startX, startY, s) ==
    LET chord == hypot(QSub(s.x, startX), QSub(s.y, startY))
        controlNet ==
            QAdd(hypot(QSub(s.cx1, startX), QSub(s.cy1, startY)),
                 QAdd(hypot(QSub(s.cx2, s.cx1), QSub(s.cy2, s.cy1)),
                      hypot(QSub(s.x, s.cx2), QSub(s.y, s.cy2))))
    IN QDiv(QAdd(chord, controlNet), Num(2))

\* De Casteljau split of the cubic from (x0, y0) at parameter t
splitCubicAt(x0, y0, seg, t) ==
    LET ax == lerp(x0, seg.cx1, t)
        ay == lerp(y0, seg.cy1, t)
        bx == lerp(seg.cx1, seg.cx2, t)
        by == lerp(seg.cy1, seg.cy2, t)
        cx == lerp(seg.cx2, seg.x, t)
        cy == lerp(seg.cy2, seg.y, t)
        dx == lerp(ax, bx, t)
        dy == lerp(ay, by, t)
        ex == lerp(bx, cx, t)
        ey == lerp(by, cy, t)
        fx == lerp(dx, ex, t)
        fy == lerp(dy, ey, t)
    IN <<CubicSegment(ax, ay, dx, dy, fx, fy),
         CubicSegment(ex, ey, cx, cy, seg.x, seg.y)>>

\* index (from 1) of the first segment of greatest length, scanning from i;
\* 1 when every length is 0
RECURSIVE longestFrom(_, _, _, _, _, _)
longestFrom(segments, i, prevX, prevY, longestIdx, longestLen) ==
    LET s == segments[i]
        len == segmentLength(prevX, prevY, s)
    IN IF i > Len(segments) THEN longestIdx
       ELSE IF QLess(longestLen, len)
         THEN longestFrom(segments, i + 1, s.x, s.y, i, len)
       ELSE longestFrom(segments, i + 1, s.x, s.y, longestIdx, longestLen)

\* the segments with the one at longestIdx replaced by its two halves
splitLongest(segments, startX, startY, longestIdx) ==
    LET sx == IF longestIdx = 1 THEN startX ELSE segments[longestIdx - 1].x
        sy == IF longestIdx = 1 THEN startY ELSE segments[longestIdx - 1].y
    IN SubSeq(segments, 1, longestIdx - 1)
       \o splitCubicAt(sx, sy, segments[longestIdx], Half)
       \o SubSeq(segments, longestIdx + 1, Len(segments))

subdivideAtLongest(segments, startX, startY) ==
    IF Len(segments) = 0 THEN segments
    ELSE splitLongest(segments, startX, startY,
                      longestFrom(segments, 1, startX, startY, 1, Num(0)))

\* while (segs.length < n) segs = subdivideAtLongest(segs, ...): the segments
\* when the loop exits, or the segments it repeats on for ever
RECURSIVE whileShorter(_, _, _, _)
\* one round of the loop: segs has become next
loopRound(segs, next, n, startX, startY) ==
    IF next = segs THEN segs ELSE whileShorter(next, n, startX, startY)

whileShorter(segs, n, startX, startY) ==
    IF Len(segs) >= n THEN segs
    ELSE loopRound(segs, subdivideAtLongest(segs, startX, startY), n, startX, startY)

\* the pair returned once both loops have ended with segsA and segsB
balancedPair(a, b, segsA, segsB) ==
    [a |-> [a EXCEPT !.segments = segsA],
     b |-> [b EXCEPT !.segments = segsB],
     terminates |-> Len(segsA) >= Len(b.segments) /\ Len(segsB) >= Len(segsA),
     argA |-> a.segments,
     argB |-> b.segments]

\* the second loop, after the first has ended with segsA
balanceSecond(a, b, segsA) ==
    balancedPair(a, b, segsA,
                 whileShorter(b.segments, Len(segsA), b.startX, b.startY))

\* faulty variant: the longer path is cut down to the length of the shorter
balanceCommands_truncates(a, b) ==
    LET n == Min(Len(a.segments), Len(b.segments))
    IN [a |-> [a EXCEPT !.segments = SubSeq(a.segments, 1, n)],
        b |-> [b EXCEPT !.segments = SubSeq(b.segments, 1, n)],
        terminates |-> TRUE,
        argA |-> a.segments,
        argB |-> b.segments]

\* balanceCommands(a, b): the pair returned, whether the call returns at all,
\* and the segment arrays of the arguments after the call
balanceCommands(a, b) ==
    balanceSecond(a, b, whileShorter(a.segments, Len(b.segments), a.startX, a.startY))

\* Math.round(n * 1000) / 1000
round(n) == QDiv(MathRound(QMul(n, Num(1000))), Num(1000))

\* the text of one blended segment: ' C..,.. ..,.. ..,..'
RECURSIVE blendSegments(_, _, _, _)
blendSegments(segsA, segsB, i, t) ==
    LET a == segsA[i]
        b == segsB[i]
    IN IF i > Len(segsA) THEN <<>>
       ELSE <<Letter("C"),
              Numbers(<<round(lerp(a.cx1, b.cx1, t)), round(lerp(a.cy1, b.cy1, t)),
                        round(lerp(a.cx2, b.cx2, t)), round(lerp(a.cy2, b.cy2, t)),
                        round(lerp(a.x, b.x, t)), round(lerp(a.y, b.y, t))>>)>>
            \o blendSegments(segsA, segsB, i + 1, t)

\* the outcome of a call of lerpPath that never returns
Hang == PathString(<<>>, "never returned")

\* the string built from the balanced pair: 'M..,..' and one 'C' per segment,
\* 'Z' when both paths are closed
blendPaths(bal, t) ==
    IF ~bal.terminates THEN Hang
    ELSE PathString(
           <<Letter("M"),
             Numbers(<<round(lerp(bal.a.startX, bal.b.startX, t)),
                       round(lerp(bal.a.startY, bal.b.startY, t))>>)>>
           \o blendSegments(bal.a.segments, bal.b.segments, 1, t)
           \o (IF bal.a.closed /\ bal.b.closed THEN <<Letter("Z")>> ELSE <<>>),
           "canonical")

\* faulty variant: the end strings go through the pipeline as well
lerpPath_alwaysBlends(pathA, pathB, t) ==
    blendPaths(balanceCommands(normalizeToCubic(parsePathD(pathA)),
                               normalizeToCubic(parsePathD(pathB))),
               IF QLeq(t, Num(0)) THEN Num(0)
               ELSE IF QLeq(Num(1), t) THEN Num(1) ELSE t)

lerpPath(pathA, pathB, t) ==
    IF QLeq(t, Num(0)) THEN pathA
    ELSE IF QLeq(Num(1), t) THEN pathB
    ELSE blendPaths(balanceCommands(normalizeToCubic(parsePathD(pathA)),
                                    normalizeToCubic(parsePathD(pathB))), t)

(* ---------------------------- interpolation --------------------------- *)
\* A keyframe is a record of `at` (ms) and the optional fields below.
NumberProperties == {"rotation", "opacity"}

OptionalNumberProperties ==
    {"strokeWidth", "blurRadius", "backdropBlur", "width", "height"}

ColorProperties == {"fill", "stroke"}

\* the animatable properties of a keyframe
Properties ==
    {"position", "scale", "strokeAlign", "pathD"}
        \cup NumberProperties \cup OptionalNumberProperties \cup ColorProperties

\* the keyframe that sets nothing but its time
BareKeyframe(at) ==
    [at |-> at, position |-> undefined, scale |-> undefined,
     rotation |-> undefined, opacity |-> undefined, fill |-> undefined,
     stroke |-> undefined, strokeWidth |-> undefined,
     strokeAlign |-> undefined, blurRadius |-> undefined,
     backdropBlur |-> undefined, width |-> undefined, height |-> undefined,
     pathD |-> undefined, curve |-> undefined]

Point(x, y) == [x |-> x, y |-> y]

\* a scale: the number s, or the point (x, y)
ScaleNumber(s) == [x |-> s, y |-> s, isPoint |-> FALSE]

ScalePoint(x, y) == [x |-> x, y |-> y, isPoint |-> TRUE]

\* the loop of _findBracket from index i, prev being the bracket start so far
RECURSIVE findBracketFrom(_, _, _, _, _)
\* faulty variant: the first keyframe after timeMs ends the search even when
\* it does not define the property
findBracketFrom_adjacent(kfs, i, timeMs, P, prev) ==
    IF i > Len(kfs) THEN <<prev, undefined>>
    ELSE IF QLeq(Num(kfs[i].at), timeMs)
      THEN findBracketFrom(kfs, i + 1, timeMs, P,
                           IF kfs[i][P] = undefined THEN prev ELSE Some(kfs[i]))
    ELSE <<prev, IF kfs[i][P] = undefined THEN undefined ELSE Some(kfs[i])>>

findBracketFrom(kfs, i, timeMs, P, prev) ==
    IF i > Len(kfs) THEN <<prev, undefined>>
    ELSE IF kfs[i][P] = undefined THEN findBracketFrom(kfs, i + 1, timeMs, P, prev)
    ELSE IF QLeq(Num(kfs[i].at), timeMs)
      THEN findBracketFrom(kfs, i + 1, timeMs, P, Some(kfs[i]))
    ELSE <<prev, Some(kfs[i])>>

\* <<prev, next>>: optional keyframes
_findBracket(kfs, timeMs, P) == findBracketFrom(kfs, 1, timeMs, P, undefined)

\* faulty variant: the easing of the keyframe the segment leaves
_easedT_prevCurve(prev, next, timeMs) ==
    LET dur == next.at - prev.at
        raw == IF dur > 0 THEN QDiv(QSub(timeMs, Num(prev.at)), Num(dur)) ELSE Num(0)
    IN getEasingFunction(prev.curve, raw)

_easedT(prev, next, timeMs) ==
    LET dur == next.at - prev.at
        raw == IF dur > 0 THEN QDiv(QSub(timeMs, Num(prev.at)), Num(dur)) ELSE Num(0)
    IN getEasingFunction(next.curve, raw)

_interpNum(kfs, t, P, def) ==
    LET br == _findBracket(kfs, t, P)
        p == br[1]
        n == br[2]
    IN IF p = undefined /\ n = undefined THEN def
       ELSE IF p = undefined THEN Val(Val(n)[P])
       ELSE IF n = undefined THEN Val(Val(p)[P])
       ELSE lerp(Val(Val(p)[P]), Val(Val(n)[P]), _easedT(Val(p), Val(n), t))

\* faulty variant: a property no keyframe defines gets the value 0
_interpOptNum_zero(kfs, t, P) == Some(_interpNum(kfs, t, P, Num(0)))

_interpOptNum(kfs, t, P) ==
    LET br == _findBracket(kfs, t, P)
        p == br[1]
        n == br[2]
    IN IF p = undefined /\ n = undefined THEN undefined
       ELSE IF p = undefined THEN Val(n)[P]
       ELSE IF n = undefined THEN Val(p)[P]
       ELSE Some(lerp(Val(Val(p)[P]), Val(Val(n)[P]), _easedT(Val(p), Val(n), t)))

lerpPoint(a, b, t) == Point(lerp(a.x, b.x, t), lerp(a.y, b.y, t))

_interpPoint(kfs, t, P, def) ==
    LET br == _findBracket(kfs, t, P)
        p == br[1]
        n == br[2]
    IN IF p = undefined /\ n = undefined THEN def
       ELSE IF p = undefined THEN Val(Val(n)[P])
       ELSE IF n = undefined THEN Val(Val(p)[P])
       ELSE lerpPoint(Val(Val(p)[P]), Val(Val(n)[P]), _easedT(Val(p), Val(n), t))

\* Math.abs(rx - ry) < 0.0001 makes the result a number
ScaleEpsilon == Q(1, 10000)

lerpScale(a, b, t) ==
    LET rx == lerp(a.x, b.x, t)
        ry == lerp(a.y, b.y, t)
    IN IF QLess(QAbs(QSub(rx, ry)), ScaleEpsilon) THEN ScaleNumber(rx)
       ELSE ScalePoint(rx, ry)

_interpScale(kfs, t) ==
    LET br == _findBracket(kfs, t, "scale")
        p == br[1]
        n == br[2]
    IN IF p = undefined /\ n = undefined THEN ScaleNumber(Num(1))
       ELSE IF p = undefined THEN Val(Val(n).scale)
       ELSE IF n = undefined THEN Val(Val(p).scale)
       ELSE lerpScale(Val(Val(p).scale), Val(Val(n).scale), _easedT(Val(p), Val(n), t))

_interpColor(kfs, t, P) ==
    LET br == _findBracket(kfs, t, P)
        p == br[1]
        n == br[2]
    IN IF p = undefined /\ n = undefined THEN ColorResult(undefined, undefined)
       ELSE IF p = undefined THEN resolveResult(Val(Val(n)[P]))
       ELSE IF n = undefined THEN resolveResult(Val(Val(p)[P]))
       ELSE lerpColorOrGradient(Val(Val(p)[P]), Val(Val(n)[P]),
                                _easedT(Val(p), Val(n), t))

_interpSnap(kfs, t, P) ==
    LET br == _findBracket(kfs, t, P)
        p == br[1]
        n == br[2]
    IN IF p = undefined /\ n = undefined THEN undefined
       ELSE IF p = undefined THEN Val(n)[P]
       ELSE Val(p)[P]

_interpPath(kfs, t) ==
    LET br == _findBracket(kfs, t, "pathD")
        p == br[1]
        n == br[2]
    IN IF p = undefined /\ n = undefined THEN undefined
       ELSE IF p = undefined THEN Val(n).pathD
       ELSE IF n = undefined THEN Val(p).pathD
       ELSE Some(lerpPath(Val(Val(p).pathD), Val(Val(n).pathD),
                          _easedT(Val(p), Val(n), t)))

\* the fields of an ActorState
StateFields == Properties \cup {"fillGradient", "strokeGradient"}

\* the state returned for an empty keyframe list; every field is optional
EmptyState ==
    [F \in StateFields |->
        CASE F = "position" -> Some(Point(Num(0), Num(0)))
          [] F = "scale" -> Some(ScaleNumber(Num(1)))
          [] F = "rotation" -> Some(Num(0))
          [] F = "opacity" -> Some(Num(1))
          [] OTHER -> undefined]

\* one field of the state literal of interpolateKeyframes
stateField(kfs, timeMs, F) ==
    CASE F = "position" ->
            Some(_interpPoint(kfs, timeMs, "position", Point(Num(0), Num(0))))
      [] F = "scale" -> Some(_interpScale(kfs, timeMs))
      [] F = "rotation" -> Some(_interpNum(kfs, timeMs, "rotation", Num(0)))
      [] F = "opacity" -> Some(_interpNum(kfs, timeMs, "opacity", Num(1)))
      [] F = "fill" -> _interpColor(kfs, timeMs, "fill").color
      [] F = "stroke" -> _interpColor(kfs, timeMs, "stroke").color
      [] F = "fillGradient" -> _interpColor(kfs, timeMs, "fill").gradient
      [] F = "strokeGradient" -> _interpColor(kfs, timeMs, "stroke").gradient
      [] F = "strokeAlign" -> _interpSnap(kfs, timeMs, "strokeAlign")
      [] F = "pathD" -> _interpPath(kfs, timeMs)
      [] OTHER -> _interpOptNum(kfs, timeMs, F)

\* the ActorState of interpolateKeyframes(keyframes, timeMs) when no plugin
\* hook is registered
interpolateKeyframes(keyframes, timeMs) ==
    IF Len(keyframes) = 0 THEN EmptyState
    ELSE [F \in StateFields |-> stateField(keyframes, timeMs, F)]

(* ----------------- calls of interpolateKeyframes ---------------------- *)
\* most keyframes of a list
MaxKeyframes == 3
\* latest keyframe time
MaxAt == 2

\* the value the i-th keyframe of a list gives a property it defines
ValueOf(P, i) ==
    CASE P = "position" -> Point(Num(4 * i), Num(0 - i))
      [] P = "scale" ->
            IF i % 2 = 1 THEN ScaleNumber(Num(i)) ELSE ScalePoint(Num(i), Num(2 * i))
      [] P \in ColorProperties ->
            IF i % 3 = 1 THEN <<"#", "f", "0", "0">>
            ELSE IF i % 3 = 2 THEN <<"#", "0", "0", "8", "0", "f", "f">>
            ELSE <<"t", "e", "a", "l">>
      [] P = "strokeAlign" ->
            IF i % 2 = 1 THEN "inside" ELSE "outside"
      [] P = "pathD" ->
            IF i % 2 = 1
              THEN PathString(<<Letter("M"), Numbers(<<Num(0), Num(0)>>),
                                Letter("L"), Numbers(<<Num(4), Num(0)>>)>>, "compact")
              ELSE PathString(<<Letter("M"), Numbers(<<Num(0), Num(0)>>),
                                Letter("H"), Numbers(<<Num(2)>>),
                                Letter("V"), Numbers(<<Num(2)>>)>>, "compact")
      [] OTHER -> Num(2 * i * i)

\* which easing the keyframes of a list carry
CurveFamilies == {"oddOut", "evenCubic"}

CurveOf(family, i) ==
    CASE family = "oddOut" -> IF i % 2 = 1 THEN Some("easeOutQuad") ELSE undefined
      [] family = "evenCubic" ->
            IF i % 2 = 0 THEN Some("easeInCubic") ELSE Some("easeInQuad")

\* the i-th keyframe of a list: at `at`, defining the properties in defs
KeyframeOf(at, i, defs, curve) ==
    [f \in DOMAIN BareKeyframe(at) |->
        IF f = "at" THEN at
        ELSE IF f = "curve" THEN curve
        ELSE IF f \in defs THEN Some(ValueOf(f, i))
        ELSE undefined]

\* ascending keyframe times
SortedTimes(len) ==
    {s \in [1..len -> 0..MaxAt] : \A i \in 1..(len - 1) : s[i] <= s[i + 1]}

\* the time-sorted list in which the i-th keyframe defines P alone when
\* only[i], and every property but P otherwise
KeyframeList(P, times, only, family) ==
    [i \in 1..Len(times) |->
        KeyframeOf(times[i], i, IF only[i] THEN {P} ELSE Properties \ {P},
                   CurveOf(family, i))]

\* query times: every half millisecond from 0 to after the last time
QueryTimes == {Q(k, 2) : k \in 0..(2 * MaxAt + 1)}

\* one property of every kind of interpolation
PatternProperties ==
    {"position", "scale", "opacity", "strokeWidth", "fill", "strokeAlign", "pathD"}

InitInterpolate ==
    /\ Created({NoTrigger})
    /\ store = NewStore
    /\ \E P \in PatternProperties, len \in 0..MaxKeyframes, family \in CurveFamilies,
          t \in QueryTimes :
          \E times \in SortedTimes(len), only \in [1..len -> BOOLEAN] :
              call = [fn |-> "interpolateKeyframes",
                      keyframes |-> KeyframeList(P, times, only, family),
                      timeMs |-> t, returned |-> FALSE, result |-> undefined]

\* the call returns its ActorState
InterpolateKeyframes ==
    /\ call.fn = "interpolateKeyframes"
    /\ ~call.returned
    /\ call' = [call EXCEPT !.returned = TRUE,
                            !.result = Some(interpolateKeyframes(call.keyframes,
                                                                 call.timeMs))]
    /\ UNCHANGED <<playbackVars, store>>

SpecInterpolate == InitInterpolate /\ [][InterpolateKeyframes]_vars

(* ============================ claims C13.. ============================ *)
\* a call of fn has returned
Returned(fn) == call.fn = fn /\ call.returned

\* the fields of an ActorState that hold a property
FieldsOf(P) ==
    CASE P = "fill" -> {"fill", "fillGradient"}
      [] P = "stroke" -> {"stroke", "strokeGradient"}
      [] OTHER -> {P}

\* one field of interpolateKeyframes(K, t)
FieldOf(K, t, F) == IF Len(K) = 0 THEN EmptyState[F] ELSE stateField(K, t, F)

\* the list without the keyframes that do not define P
Defining(K, P) == SelectSeq(K, LAMBDA kf : kf[P] # undefined)

\* C13: for every time-sorted keyframe list, property P and query time, the
\* state interpolated from the list holds the same value of P as the state
\* interpolated from the list without the keyframes that do not define P:
\* keyframes that define only other properties create no hold segment for P.
C13_PropertyTracksIndependent ==
    Returned("interpolateKeyframes") =>
        \A P \in Properties : \A F \in FieldsOf(P) :
            Val(call.result)[F]
                = FieldOf(Defining(call.keyframes, P), call.timeMs, F)

\* a keyframe without opacity lies, in time, between two that define it, the
\* query falls after it, and the opacity found is strictly between their values
C13_Witness ==
    /\ Returned("interpolateKeyframes")
    /\ Len(call.keyframes) = 3
    /\ call.keyframes[1].opacity # undefined
    /\ call.keyframes[2].opacity = undefined
    /\ call.keyframes[3].opacity # undefined
    /\ call.keyframes[1].at < call.keyframes[2].at
    /\ QLess(Num(call.keyframes[2].at), call.timeMs)
    /\ QLess(call.timeMs, Num(call.keyframes[3].at))
    /\ QLess(Val(call.keyframes[1].opacity), Val(Val(call.result).opacity))
    /\ QLess(Val(Val(call.result).opacity), Val(call.keyframes[3].opacity))

\* index of the latest keyframe at or before t that defines P, 0 when none
PrevIndex(K, P, t) ==
    LET S == {i \in 1..Len(K) : K[i][P] # undefined /\ QLeq(Num(K[i].at), t)}
    IN IF S = {} THEN 0 ELSE CHOOSE i \in S : \A j \in S : j <= i

\* index of the earliest keyframe after t that defines P, 0 when none
NextIndex(K, P, t) ==
    LET S == {i \in 1..Len(K) : K[i][P] # undefined /\ QLess(t, Num(K[i].at))}
    IN IF S = {} THEN 0 ELSE CHOOSE i \in S : \A j \in S : i <= j

\* e((t - prev.at) / (next.at - prev.at)), e the easing named by next.curve
EasedFraction(prev, next, t) ==
    getEasingFunction(next.curve,
                      QDiv(QSub(t, Num(prev.at)), Num(next.at - prev.at)))

\* a + (b - a) * e
Blend(a, b, e) == QAdd(a, QMul(QSub(b, a), e))

\* the properties whose values are numbers
NumericProperties == NumberProperties \cup OptionalNumberProperties

NeverDefined(K, P) == \A i \in 1..Len(K) : K[i][P] = undefined

\* C15 (as stated): for every non-empty keyframe list and every animatable
\* property P, if no keyframe of the list defines P then P is undefined in
\* the state returned, at every query time, whatever else the keyframes define.
C15_UndefinedWhenNeverDefined ==
    (Returned("interpolateKeyframes") /\ Len(call.keyframes) > 0) =>
        \A P \in Properties :
            NeverDefined(call.keyframes, P) => Val(call.result)[P] = undefined

\* the value of a property that no keyframe defines
GlobalDefault(P) ==
    CASE P = "position" -> Some(Point(Num(0), Num(0)))
      [] P = "scale" -> Some(ScaleNumber(Num(1)))
      [] P = "rotation" -> Some(Num(0))
      [] P = "opacity" -> Some(Num(1))
      [] OTHER -> undefined

\* C15 (amended): for every non-empty keyframe list and every animatable
\* property P that no keyframe of the list defines, the state returned holds,
\* at every query time, the global default of P: position {0, 0}, scale 1,
\* rotation 0, opacity 1, and undefined for every other property.
C15_DefaultWhenNeverDefined ==
    (Returned("interpolateKeyframes") /\ Len(call.keyframes) > 0) =>
        \A P \in Properties :
            NeverDefined(call.keyframes, P) => Val(call.result)[P] = GlobalDefault(P)

\* every keyframe of a list sets fill alone: the state has the fill, no
\* stroke width, and the default opacity and position
C15_Witness ==
    /\ Returned("interpolateKeyframes")
    /\ Len(call.keyframes) = 2
    /\ \A P \in Properties \ {"fill"} : NeverDefined(call.keyframes, P)
    /\ ~NeverDefined(call.keyframes, "fill")
    /\ Val(call.result).fill # undefined
    /\ Val(call.result).strokeWidth = undefined
    /\ Val(call.result).opacity = Some(Num(1))
    /\ Val(call.result).position = Some(Point(Num(0), Num(0)))

(* ------------------------------ timeline() ---------------------------- *)
\* kf put into the ascending list after every keyframe that is not later
RECURSIVE insertByAt(_, _)
insertByAt(sorted, kf) ==
    IF sorted = <<>> THEN <<kf>>
    ELSE IF kf.at < Head(sorted).at THEN <<kf>> \o sorted
    ELSE <<Head(sorted)>> \o insertByAt(Tail(sorted), kf)

\* [...keyframes].sort((a, b) => a.at - b.at): ascending by `at`, equal times
\* in their input order
RECURSIVE sortByAt(_)
sortByAt(kfs) ==
    IF kfs = <<>> THEN <<>>
    ELSE insertByAt(sortByAt(SubSeq(kfs, 1, Len(kfs) - 1)), kfs[Len(kfs)])

\* x ?? def
OrElse(x, def) == IF x = undefined THEN Some(def) ELSE x

\* the first keyframe with a full state
filledFirst(first, actor) ==
    [BareKeyframe(first.at) EXCEPT
        !.position = OrElse(first.position, actor.origin),
        !.scale = OrElse(first.scale, ScaleNumber(Num(1))),
        !.rotation = OrElse(first.rotation, Num(0)),
        !.opacity = OrElse(first.opacity, Num(1)),
        !.fill = first.fill,
        !.stroke = first.stroke,
        !.strokeWidth = first.strokeWidth,
        !.strokeAlign = first.strokeAlign,
        !.blurRadius = first.blurRadius,
        !.backdropBlur = first.backdropBlur,
        !.curve = first.curve]

\* the outcome of a call: it threw, or it returned value; keyframes is the
\* caller's array after the call and timelineCounter the module counter
Outcome(threw, value, keyframes, timelineCounter) ==
    [threw |-> threw, value |-> value, keyframes |-> keyframes,
     timelineCounter |-> timelineCounter]

\* faulty variant: the caller's array is sorted and patched in place
timeline_inPlace(actor, keyframes, timelineCounter) ==
    LET sorted == sortByAt(Val(keyframes))
        filled == [sorted EXCEPT ![1] = filledFirst(sorted[1], actor)]
    IN IF keyframes = undefined \/ Len(Val(keyframes)) = 0
         THEN Outcome(TRUE, undefined, keyframes, timelineCounter)
       ELSE Outcome(FALSE,
                    Some([id |-> <<"tl", actor.id, timelineCounter + 1>>,
                          actorId |-> actor.id,
                          keyframes |-> filled,
                          duration |-> filled[Len(filled)].at]),
                    Some(filled), timelineCounter + 1)

\* timeline(actor, {keyframes}); keyframes is undefined when the field is missing
timeline(actor, keyframes, timelineCounter) ==
    LET sorted == sortByAt(Val(keyframes))
        filled == [sorted EXCEPT ![1] = filledFirst(sorted[1], actor)]
    IN IF keyframes = undefined \/ Len(Val(keyframes)) = 0
         THEN Outcome(TRUE, undefined, keyframes, timelineCounter)
       ELSE Outcome(FALSE,
                    Some([id |-> <<"tl", actor.id, timelineCounter + 1>>,
                          actorId |-> actor.id,
                          keyframes |-> filled,
                          duration |-> filled[Len(filled)].at]),
                    keyframes, timelineCounter + 1)

(* ------------------------- calls of timeline() ------------------------ *)
\* the actor every timeline is built for
TheActor == [id |-> "actor-t", origin |-> Point(Num(50), Num(50))]

\* keyframe times in any order
AnyTimes(len) == [1..len -> 0..MaxAt]

InitTimeline ==
    /\ Created({NoTrigger})
    /\ store = NewStore
    /\ \/ call = [fn |-> "timeline", keyframes |-> undefined, timelineCounter |-> 0,
                  returned |-> FALSE, result |-> undefined]
       \/ \E P \in PatternProperties, len \in 0..MaxKeyframes, family \in CurveFamilies,
             counter \in {0, 1} :
             \E times \in AnyTimes(len), only \in [1..len -> BOOLEAN] :
                 call = [fn |-> "timeline",
                         keyframes |-> Some(KeyframeList(P, times, only, family)),
                         timelineCounter |-> counter,
                         returned |-> FALSE, result |-> undefined]

\* the call returns or throws
Timeline ==
    /\ call.fn = "timeline"
    /\ ~call.returned
    /\ call' = [call EXCEPT !.returned = TRUE,
                            !.result = Some(timeline(TheActor, call.keyframes,
                                                     call.timelineCounter))]
    /\ UNCHANGED <<playbackVars, store>>

SpecTimeline == InitTimeline /\ [][Timeline]_vars

\* index of the input keyframe that comes first in the timeline
Earliest(K) ==
    CHOOSE i \in 1..Len(K) :
        \A j \in 1..Len(K) : K[i].at < K[j].at \/ (K[i].at = K[j].at /\ i <= j)

\* the fields of a keyframe besides its time
KeyframeFields == Properties \cup {"curve"}

\* a call of timeline() with a non-empty list has ended
Built ==
    /\ Returned("timeline")
    /\ call.keyframes # undefined
    /\ Len(Val(call.keyframes)) > 0

\* C16: on the first keyframe of a timeline built by timeline(), every field
\* that the earliest input keyframe sets (position, scale, rotation, opacity,
\* fill, stroke, strokeWidth, strokeAlign, blurRadius, backdropBlur, width,
\* height, pathD, curve) keeps its input value, and of position, scale,
\* rotation and opacity those left undefined are the actor origin, 1, 0 and 1.
C16_FirstKeyframeKeepsExplicit ==
    Built =>
        LET in == Val(call.keyframes)[Earliest(Val(call.keyframes))]
            first == Val(Val(call.result).value).keyframes[1]
        IN /\ ~Val(call.result).threw
           /\ \A F \in KeyframeFields : in[F] # undefined => first[F] = in[F]
           /\ in.position = undefined => first.position = Some(TheActor.origin)
           /\ in.scale = undefined => first.scale = Some(ScaleNumber(Num(1)))
           /\ in.rotation = undefined => first.rotation = Some(Num(0))
           /\ in.opacity = undefined => first.opacity = Some(Num(1))

\* how many keyframes of K are at time v
CountAt(K, v) == Cardinality({i \in 1..Len(K) : K[i].at = v})

\* C17: for a non-empty keyframe list timeline() returns a Timeline whose
\* keyframes are as many as the input's, have the same multiset of `at`
\* values, ascend by `at`, and whose duration is the greatest `at`; the
\* caller's array and its keyframes are unchanged.  For an empty or missing
\* list it throws and returns no Timeline.
C17_SortedSameTimesOrThrows ==
    Returned("timeline") =>
        LET in == Val(call.keyframes)
            out == Val(Val(call.result).value).keyframes
        IN IF Built
             THEN /\ ~Val(call.result).threw
                  /\ Len(out) = Len(in)
                  /\ \A v \in 0..MaxAt : CountAt(out, v) = CountAt(in, v)
                  /\ \A i \in 1..(Len(out) - 1) : out[i].at <= out[i + 1].at
                  /\ \A i \in 1..Len(in) : in[i].at <= Val(Val(call.result).value).duration
                  /\ \E i \in 1..Len(in) : in[i].at = Val(Val(call.result).value).duration
                  /\ Val(call.result).keyframes = call.keyframes
             ELSE /\ Val(call.result).threw
                  /\ Val(call.result).value = undefined

\* three keyframes given latest first come back earliest first
C17_Witness ==
    /\ Built
    /\ Len(Val(call.keyframes)) = 3
    /\ Val(call.keyframes)[1].at = 2
    /\ Val(call.keyframes)[2].at = 0
    /\ Val(call.keyframes)[3].at = 1
    /\ Val(Val(call.result).value).keyframes[1].at = 0
    /\ Val(Val(call.result).value).keyframes[3].at = 2
    /\ Val(Val(call.result).value).duration = 2

(* ------------------------------ trigger() ----------------------------- *)
\* Number.POSITIVE_INFINITY as a number
PosInfinity == [n |-> 1, d |-> 0]

\* a TriggerConfig: its type and the optional fields of the variants
TriggerConfig(type, iterations, delay, start, end, threshold) ==
    [type |-> type, iterations |-> iterations, delay |-> delay,
     start |-> start, end |-> end, threshold |-> threshold]

\* x !== undefined && x < 0
IsNegative(x) == x # undefined /\ QLess(Val(x), Num(0))

\* x !== undefined && (x < 0 || x > 1)
OutsideUnit(x) ==
    x # undefined /\ (QLess(Val(x), Num(0)) \/ QLess(Num(1), Val(x)))

\* faulty variant: a scroll trigger's end is not checked
validateTrigger_endUnchecked(config) ==
    CASE config.type \in {"hover", "click", "manual"} -> FALSE
      [] config.type = "loop" ->
            IsNegative(config.iterations) \/ IsNegative(config.delay)
      [] config.type = "scroll" -> OutsideUnit(config.start)
      [] config.type = "appear" -> OutsideUnit(config.threshold)
      [] OTHER -> TRUE

\* validateTrigger(config) throws
validateTrigger(config) ==
    CASE config.type \in {"hover", "click", "manual"} -> FALSE
      [] config.type = "loop" ->
            IsNegative(config.iterations) \/ IsNegative(config.delay)
      [] config.type = "scroll" ->
            OutsideUnit(config.start) \/ OutsideUnit(config.end)
      [] config.type = "appear" -> OutsideUnit(config.threshold)
      [] OTHER -> TRUE

\* trigger(tl, config): throws, or returns the TriggerBinding
trigger(tl, config) ==
    IF validateTrigger(config)
      THEN [threw |-> TRUE, value |-> undefined]
    ELSE [threw |-> FALSE,
          value |-> Some([timelineId |-> tl.id,
                          config |-> [f \in DOMAIN config |-> config[f]]])]

(* ------------------------- calls of trigger() ------------------------- *)
\* numeric fields range over the halves from -MaxHalves/2 to MaxHalves/2
MaxHalves == 3

\* an optional number of a trigger config
TriggerNumbers ==
    {undefined, Some(PosInfinity)}
        \cup {Some(Q(k, 2)) : k \in (0 - MaxHalves)..MaxHalves}

\* the trigger types, and one that is none of them
TriggerTypes == {"hover", "click", "loop", "scroll", "appear", "manual", "focus"}

TheTimeline == [id |-> <<"tl", TheActor.id, 1>>]

\* configs that set the fields of one variant, whatever their type
TriggerConfigs ==
    {TriggerConfig(ty, a, b, undefined, undefined, undefined) :
        ty \in TriggerTypes, a \in TriggerNumbers, b \in TriggerNumbers}
    \cup {TriggerConfig(ty, undefined, undefined, a, b, undefined) :
        ty \in TriggerTypes, a \in TriggerNumbers, b \in TriggerNumbers}
    \cup {TriggerConfig(ty, undefined, undefined, undefined, undefined, a) :
        ty \in TriggerTypes, a \in TriggerNumbers}

InitTrigger ==
    /\ Created({NoTrigger})
    /\ store = NewStore
    /\ \E config \in TriggerConfigs :
          call = [fn |-> "trigger", config |-> config,
                  returned |-> FALSE, result |-> undefined]

\* the call returns or throws
Trigger ==
    /\ call.fn = "trigger"
    /\ ~call.returned
    /\ call' = [call EXCEPT !.returned = TRUE,
                            !.result = Some(trigger(TheTimeline, call.config))]
    /\ UNCHANGED <<playbackVars, store>>

SpecTrigger == InitTrigger /\ [][Trigger]_vars

\* the number x is given and lies below 0
Below0(x) == x # undefined /\ Val(x).n < 0

\* the number x is given and lies outside [0, 1]
Outside01(x) == x # undefined /\ (Val(x).n < 0 \/ Val(x).n > Val(x).d)

\* C18: trigger(timeline, config) throws exactly when the type is loop and
\* iterations < 0 or delay < 0, the type is scroll and start or end is outside
\* [0, 1], the type is appear and threshold is outside [0, 1], or the type is
\* none of hover, click, loop, scroll, appear, manual; in every other case it
\* returns {timelineId: timeline.id, config} with config equal to the input in
\* every field.
C18_ThrowsExactlyOnInvalid ==
    Returned("trigger") =>
        LET c == call.config
            invalid ==
                \/ c.type = "loop" /\ (Below0(c.iterations) \/ Below0(c.delay))
                \/ c.type = "scroll" /\ (Outside01(c.start) \/ Outside01(c.end))
                \/ c.type = "appear" /\ Outside01(c.threshold)
                \/ c.type \notin {"hover", "click", "loop", "scroll", "appear", "manual"}
        IN IF invalid
             THEN Val(call.result).threw /\ Val(call.result).value = undefined
           ELSE /\ ~Val(call.result).threw
                /\ Val(Val(call.result).value).timelineId = TheTimeline.id
                /\ Val(Val(call.result).value).config = c

\* a scroll trigger from 0 to 1 is bound as given
C18_Witness ==
    /\ Returned("trigger")
    /\ call.config.type = "scroll"
    /\ call.config.start = Some(Num(0))
    /\ call.config.end = Some(Num(1))
    /\ ~Val(call.result).threw
    /\ Val(Val(call.result).value).config.end = Some(Num(1))

(* ------------- calls of balanceCommands and lerpPath ------------------ *)
\* most drawing commands of a path string
MaxSegments == 3

\* the i-th drawing command of a path of the given kind
DrawCommand(kind, i) ==
    CASE kind = "line" ->
            <<Letter("L"), Numbers(<<Num(i * i), Num(0)>>)>>
      [] kind = "stairs" ->
            IF i % 2 = 1 THEN <<Letter("H"), Numbers(<<Num(i + 1)>>)>>
            ELSE <<Letter("V"), Numbers(<<Num(i)>>)>>
      [] kind = "relative" ->
            <<Letter("l"), Numbers(<<Num(3), Num(4)>>)>>
      [] kind = "curve" ->
            <<Letter("C"), Numbers(<<Num(3 * i - 3), Num(3), Num(3 * i), Num(3),
                                     Num(3 * i), Num(0)>>)>>

RECURSIVE DrawCommands(_, _)
DrawCommands(kind, n) ==
    IF n = 0 THEN <<>> ELSE DrawCommands(kind, n - 1) \o DrawCommand(kind, n)

PathKinds == {"line", "stairs", "relative", "curve"}

\* the path string 'M x,y' followed by n drawing commands and, if closed, 'Z'
PathOf(kind, n, closed, x, y) ==
    PathString(<<Letter("M"), Numbers(<<Num(x), Num(y)>>)>>
               \o DrawCommands(kind, n)
               \o (IF closed THEN <<Letter("Z")>> ELSE <<>>),
               "compact")

\* well-formed path strings, a bare move among them
PathStrings ==
    {PathOf(kind, n, closed, x, 0) :
        kind \in PathKinds, n \in 0..MaxSegments, closed \in BOOLEAN, x \in {0, 1}}

\* the empty string, text without any command, a line without its end point
MalformedStrings ==
    {PathString(<<>>, "compact"),
     PathString(<<Numbers(<<Num(1), Num(2)>>)>>, "compact"),
     PathString(<<Letter("M"), Numbers(<<Num(0), Num(0)>>),
                  Letter("L"), Numbers(<<Num(4)>>)>>, "compact")}

\* blend factors: below 0, 0, inside, 1, above 1
BlendFactors == {Q(k, 2) : k \in (0 - 1)..3}

InitPathMorph ==
    /\ Created({NoTrigger})
    /\ store = NewStore
    /\ \/ \E s1 \in PathStrings, s2 \in PathStrings :
             call = [fn |-> "balanceCommands",
                     a |-> normalizeToCubic(parsePathD(s1)),
                     b |-> normalizeToCubic(parsePathD(s2)),
                     returned |-> FALSE, result |-> undefined]
       \/ \E s1 \in PathStrings \cup MalformedStrings,
             s2 \in PathStrings \cup MalformedStrings, t \in BlendFactors :
             call = [fn |-> "lerpPath", pathA |-> s1, pathB |-> s2, t |-> t,
                     returned |-> FALSE, result |-> undefined]

\* the call after balanceCommands has come to r
EndsWithPaths(r) == [call EXCEPT !.returned = r.terminates, !.result = Some(r)]

\* the call returns its pair of paths, or never returns
BalanceCommands ==
    /\ call.fn = "balanceCommands"
    /\ ~call.returned
    /\ call' = EndsWithPaths(balanceCommands(call.a, call.b))
    /\ UNCHANGED <<playbackVars, store>>

\* the call after lerpPath has come to s
EndsWithString(s) == [call EXCEPT !.returned = (s # Hang), !.result = Some(s)]

\* the call returns its string, or never returns
LerpPath ==
    /\ call.fn = "lerpPath"
    /\ ~call.returned
    /\ call' = EndsWithString(lerpPath(call.pathA, call.pathB, call.t))
    /\ UNCHANGED <<playbackVars, store>>

SpecPathMorph == InitPathMorph /\ [][BalanceCommands \/ LerpPath]_vars

\* the end point of the last segment of a normalized path
EndPoint(p) == <<p.segments[Len(p.segments)].x, p.segments[Len(p.segments)].y>>

\* C19: for two normalized paths with at least one segment each,
\* balanceCommands(a, b) returns paths whose segment counts both equal the
\* greater of the two input counts (none is reduced), that keep the start
\* point, the end point of the last segment and the closed flag of a and of b,
\* and it leaves the segment arrays of a and b as they were.
C19_BalancedCountsKeepEnds ==
    (call.fn = "balanceCommands" /\ call.result # undefined
        /\ Len(call.a.segments) >= 1 /\ Len(call.b.segments) >= 1) =>
        LET r == Val(call.result)
            n == Max(Len(call.a.segments), Len(call.b.segments))
        IN /\ r.terminates
           /\ Len(r.a.segments) = n
           /\ Len(r.b.segments) = n
           /\ <<r.a.startX, r.a.startY>> = <<call.a.startX, call.a.startY>>
           /\ <<r.b.startX, r.b.startY>> = <<call.b.startX, call.b.startY>>
           /\ EndPoint(r.a) = EndPoint(call.a)
           /\ EndPoint(r.b) = EndPoint(call.b)
           /\ r.a.closed = call.a.closed
           /\ r.b.closed = call.b.closed
           /\ r.argA = call.a.segments
           /\ r.argB = call.b.segments

\* a path of one segment is balanced against a path of four
C19_Witness ==
    /\ Returned("balanceCommands")
    /\ Len(call.a.segments) = 1
    /\ Len(call.b.segments) = 4
    /\ Len(Val(call.result).a.segments) = 4
    /\ Val(call.result).a.segments # call.a.segments
    /\ Val(call.result).b.segments = call.b.segments

\* C20: lerpPath(a, b, t) returns the string a itself for every t <= 0 and the
\* string b itself for every t >= 1, whatever the strings are (malformed and
\* empty ones included): the text is the input's, not a re-serialization.
C20_EndsReturnInputs ==
    (call.fn = "lerpPath" /\ call.result # undefined) =>
        /\ QLeq(call.t, Num(0)) => call.returned /\ Val(call.result) = call.pathA
        /\ QLeq(Num(1), call.t) => call.returned /\ Val(call.result) = call.pathB

\* at t = 1 a malformed string comes back as it is, and inside (0, 1) the same
\* pair of a line and a closed path gives a new string
C20_Witness ==
    /\ Returned("lerpPath")
    /\ call.t = Num(1)
    /\ call.pathA \in PathStrings
    /\ call.pathB \in MalformedStrings
    /\ call.pathB.tokens # <<>>
    /\ Val(call.result) = call.pathB
    /\ lerpPath(call.pathA, PathOf("stairs", 2, TRUE, 0, 0), Half) \notin
           {call.pathA, PathOf("stairs", 2, TRUE, 0, 0)}

(* ------------------------- calls of lerpColor ------------------------- *)
\* solid colors: '#f00', '#00ff00', '#0000FF', 'red', 'teal', 'orange',
\* '#ggg', '#12' and 'rgb(0,0,0)'
SolidColors ==
    {<<"#", "f", "0", "0">>,
     <<"#", "0", "0", "f", "f", "0", "0">>,
     <<"#", "0", "0", "0", "0", "F", "F">>,
     <<"r", "e", "d">>,
     <<"t", "e", "a", "l">>,
     <<"o", "r", "a", "n", "g", "e">>,
     <<"#", "g", "g", "g">>,
     <<"#", "1", "2">>,
     <<"r", "g", "b", "(", "0", ",", "0", ",", "0", ")">>}

\* blend factors of a color blend: the quarters of [0, 1]
ColorFactors == {Q(k, 4) : k \in 0..4}

InitColor ==
    /\ Created({NoTrigger})
    /\ store = NewStore
    /\ \E a \in SolidColors, b \in SolidColors, t \in ColorFactors :
          call = [fn |-> "lerpColor", a |-> a, b |-> b, t |-> t,
                  returned |-> FALSE, result |-> undefined]

\* the call returns its optional string
LerpColor ==
    /\ call.fn = "lerpColor"
    /\ ~call.returned
    /\ call' = [call EXCEPT !.returned = TRUE,
                            !.result = lerpColor(call.a, call.b, call.t)]
    /\ UNCHANGED <<playbackVars, store>>

SpecColor == InitColor /\ [][LerpColor]_vars

\* '#' followed by three or six hexadecimal digits
ValidHex(s) ==
    /\ Len(s) \in {4, 7}
    /\ s[1] = "#"
    /\ \A i \in 2..Len(s) : IsHexDigit(s[i])

\* C21: when two different solid colors are blended and at least one of them
\* is not a valid #RGB or #RRGGBB color, the result is one of the two input
\* strings: the first for a blend factor below 1/2, the second otherwise.
C21_InvalidColorsSnap ==
    (Returned("lerpColor") /\ call.a # call.b
        /\ (~ValidHex(call.a) \/ ~ValidHex(call.b))) =>
        call.result = Some(IF QLess(call.t, Half) THEN call.a ELSE call.b)

(* --------------------------- plugin hooks ----------------------------- *)
\* a registered plugin: its name and the hooks it implements (optional names
\* of hook functions)
Plugin(name, before, after) ==
    [name |-> name,
     hooks |-> [beforeInterpolate |-> before, afterInterpolate |-> after]]

\* the time of the keyframe that the 'hold' hook appends
HoldAt == 2 * MaxAt + 2

\* beforeInterpolate hook functions: 'delay' moves every keyframe one
\* millisecond later, 'hold' appends a late keyframe whose opacity is timeMs
beforeHook(hook, keyframes, timeMs) ==
    IF hook = "delay"
      THEN [i \in 1..Len(keyframes) |-> [keyframes[i] EXCEPT !.at = @ + 1]]
      ELSE Append(keyframes, [BareKeyframe(HoldAt) EXCEPT !.opacity = Some(timeMs)])

\* afterInterpolate hook functions: 'fade' halves the opacity of a named
\* actor, 'turn' adds the opacity and timeMs to the rotation
afterHook(hook, actorState, actorId, timeMs) ==
    IF hook = "fade"
      THEN IF actorId = "" THEN actorState
           ELSE [actorState EXCEPT !.opacity = Some(QMul(Val(@), Half))]
      ELSE [actorState EXCEPT
              !.rotation = Some(QAdd(QAdd(Val(@), Val(actorState.opacity)), timeMs))]

\* hook(result, ...args.slice(1))
callHook(hookName, hook, result, arg2, arg3) ==
    IF hookName = "beforeInterpolate" THEN beforeHook(hook, result, arg2)
    ELSE afterHook(hook, result, arg2, arg3)

\* the loop of PluginManager.run from the i-th plugin on
RECURSIVE runFrom(_, _, _, _, _, _)
runFrom(_plugins, hookName, i, result, arg2, arg3) ==
    IF i > Len(_plugins) THEN result
    ELSE runFrom(_plugins, hookName, i + 1,
                 IF _plugins[i].hooks[hookName] = undefined THEN result
                 ELSE callHook(hookName, Val(_plugins[i].hooks[hookName]),
                               result, arg2, arg3),
                 arg2, arg3)

\* PluginManager.run(hookName, args[0], args[1], args[2])
run(_plugins, hookName, arg1, arg2, arg3) ==
    runFrom(_plugins, hookName, 1, arg1, arg2, arg3)

\* PluginManager.has(hookName)
has(_plugins, hookName) ==
    \E i \in 1..Len(_plugins) : _plugins[i].hooks[hookName] # undefined

\* the end of interpolateKeyframes: the afterInterpolate hooks
afterInterpolate(_plugins, actorState, actorId, timeMs) ==
    IF has(_plugins, "afterInterpolate")
      THEN run(_plugins, "afterInterpolate", actorState, actorId, timeMs)
      ELSE actorState

\* interpolateKeyframes from the state literal on
interpolateHooked(_plugins, kfs, timeMs, actorId) ==
    afterInterpolate(_plugins, [F \in StateFields |-> stateField(kfs, timeMs, F)],
                     actorId, timeMs)

\* interpolateKeyframes(keyframes, timeMs, {actorId}) with the registered
\* plugins _plugins
interpolateKeyframesWith(_plugins, keyframes, timeMs, actorId) ==
    IF Len(keyframes) = 0 THEN EmptyState
    ELSE interpolateHooked(_plugins,
                           IF has(_plugins, "beforeInterpolate")
                             THEN run(_plugins, "beforeInterpolate", keyframes,
                                      timeMs, undefined)
                             ELSE keyframes,
                           timeMs, actorId)

(* --------------- calls of interpolateKeyframes with plugins ----------- *)
\* most registered plugins
MaxPlugins == 2

\* the plugins there are to register
KnownPlugins ==
    {Plugin("delay", Some("delay"), undefined),
     Plugin("hold-fade", Some("hold"), Some("fade")),
     Plugin("turn", undefined, Some("turn")),
     Plugin("idle", undefined, undefined)}

\* the registry after registrations: no two plugins of one name
Registries ==
    UNION {{r \in [1..n -> KnownPlugins] :
               \A i, j \in 1..n : r[i].name = r[j].name => i = j} :
           n \in 0..MaxPlugins}

\* most keyframes of a list handed to the hooks
MaxHooked == 2

InitHooks ==
    /\ Created({NoTrigger})
    /\ store = NewStore
    /\ \E r \in Registries, len \in 0..MaxHooked, t \in QueryTimes,
          actorId \in {"", "actor-1"} :
          \E times \in SortedTimes(len) :
              call = [fn |-> "interpolateKeyframes", _plugins |-> r,
                      keyframes |-> [i \in 1..len |->
                          KeyframeOf(times[i], i, {"opacity", "rotation"},
                                     CurveOf("oddOut", i))],
                      timeMs |-> t, actorId |-> actorId,
                      returned |-> FALSE, result |-> undefined]

\* the call returns its ActorState
InterpolateWithPlugins ==
    /\ call.fn = "interpolateKeyframes"
    /\ ~call.returned
    /\ call' = [call EXCEPT
                   !.returned = TRUE,
                   !.result = Some(interpolateKeyframesWith(
                       call._plugins, call.keyframes, call.timeMs, call.actorId))]
    /\ UNCHANGED <<playbackVars, store>>

SpecHooks == InitHooks /\ [][InterpolateWithPlugins]_vars

\* C22: for a keyframe list of any length, interpolateKeyframes returns the
\* output of the registered afterInterpolate hooks, applied in registration
\* order to the state computed from the output of the registered
\* beforeInterpolate hooks applied in registration order; without hooks this
\* is the hook-free computation.
C22_HooksChainForEveryList ==
    Returned("interpolateKeyframes") =>
        Val(call.result) =
            run(call._plugins, "afterInterpolate",
                interpolateKeyframes(
                    run(call._plugins, "beforeInterpolate", call.keyframes,
                        call.timeMs, undefined),
                    call.timeMs),
                call.actorId, call.timeMs)

(* --------------------------- AnimationStore --------------------------- *)
\* A Record<string, ActorState> is a function from the actor ids it holds;
\* an ActorState is the number x of makeState(x).  Object.assign(target,
\* patch) and the spread {...target, ...patch}:
assign(target, patch) ==
    [k \in DOMAIN target \cup DOMAIN patch |->
        IF k \in DOMAIN patch THEN patch[k] ELSE target[k]]

_scheduleBatch(s) ==
    IF s._batchScheduled THEN s
    ELSE [s EXCEPT !._batchScheduled = TRUE, !.microtasks = @ + 1]

\* faulty variant: the snapshot is replaced at once
set_snapshotNow(s, actorId, actorState) ==
    _scheduleBatch([s EXCEPT !._states = assign(@, actorId :> actorState),
                             !._snapshot = assign(s._states, actorId :> actorState),
                             !.flushes = @ + 1,
                             !._dirty = TRUE])

set(s, actorId, actorState) ==
    _scheduleBatch([s EXCEPT !._states = assign(@, actorId :> actorState),
                             !._dirty = TRUE])

setMany(s, patch) ==
    _scheduleBatch([s EXCEPT !._states = assign(@, patch), !._dirty = TRUE])

RECURSIVE _flush(_)
reset(s, initial) == _flush([s EXCEPT !._states = initial, !._dirty = TRUE])

\* the kinds of listener: 'view' only reads; 'mirror' copies the state of
\* actor 'a' to actor 'b' with set() when they differ; 'guard' empties the
\* store with reset() when the snapshot holds more than one actor
ListenerKinds == {"view", "mirror", "guard"}

\* the call l() of a subscribed listener
listener(l, s) ==
    CASE l = "mirror" ->
            IF "a" \in DOMAIN s._snapshot
               /\ ("b" \notin DOMAIN s._snapshot \/ s._snapshot["b"] # s._snapshot["a"])
              THEN set(s, "b", s._snapshot["a"])
              ELSE s
      [] l = "guard" ->
            IF Cardinality(DOMAIN s._snapshot) > 1 THEN reset(s, <<>>) ELSE s
      [] OTHER -> s

\* this._listeners.forEach((l) => l()), from the i-th listener on
RECURSIVE forEachListener(_, _, _)
forEachListener(s, listeners, i) ==
    IF i > Len(listeners) THEN s
    ELSE forEachListener(
             listener(listeners[i], [s EXCEPT !.notified = Append(@, listeners[i])]),
             listeners, i + 1)

_flush(s) ==
    forEachListener([s EXCEPT !._snapshot = s._states, !._dirty = FALSE,
                              !.flushes = @ + 1],
                    s._listeners, 1)

\* faulty variant: the callback flushes whether or not anything changed
batchCallback_alwaysFlushes(s) == _flush([s EXCEPT !._batchScheduled = FALSE])

\* the callback that _scheduleBatch hands to queueMicrotask
batchCallback(s) ==
    IF s._dirty THEN _flush([s EXCEPT !._batchScheduled = FALSE])
    ELSE [s EXCEPT !._batchScheduled = FALSE]

\* this._listeners.add(listener)
subscribe(s, l) ==
    IF \E i \in 1..Len(s._listeners) : s._listeners[i] = l THEN s
    ELSE [s EXCEPT !._listeners = Append(@, l)]

\* the function returned by subscribe: this._listeners.delete(listener)
unsubscribe(s, l) ==
    [s EXCEPT !._listeners = SelectSeq(@, LAMBDA x : x # l)]

(* ----------------------- calls on the store --------------------------- *)
\* greatest x of a makeState(x)
MaxValue == 2

ActorIds == {"a", "b"}

\* the records handed to setMany and reset
Records == UNION {[ids -> 1..MaxValue] : ids \in SUBSET ActorIds}

\* the store as an operation `name` finds it: nothing observed yet
Entered(name) ==
    [store EXCEPT !.notified = <<>>, !.flushes = 0, !.op = [name |-> name]]

InitStore == Created({NoTrigger}) /\ call = NoCall /\ store = NewStore

StoreSet ==
    /\ \E actorId \in ActorIds, x \in 1..MaxValue :
          store' = set(Entered("set"), actorId, x)
    /\ UNCHANGED <<playbackVars, call>>

StoreSetMany ==
    /\ \E patch \in Records : store' = setMany(Entered("setMany"), patch)
    /\ UNCHANGED <<playbackVars, call>>

StoreReset ==
    /\ \E initial \in Records : store' = reset(Entered("reset"), initial)
    /\ UNCHANGED <<playbackVars, call>>

Subscribe ==
    /\ \E l \in ListenerKinds : store' = subscribe(Entered("subscribe"), l)
    /\ UNCHANGED <<playbackVars, call>>

Unsubscribe ==
    /\ \E i \in 1..Len(store._listeners) :
          store' = unsubscribe(Entered("unsubscribe"), store._listeners[i])
    /\ UNCHANGED <<playbackVars, call>>

\* the host runs the oldest callback of the microtask queue
Microtask ==
    /\ store.microtasks > 0
    /\ store' = batchCallback([Entered("microtask") EXCEPT !.microtasks = @ - 1])
    /\ UNCHANGED <<playbackVars, call>>

NextStore ==
    \/ StoreSet
    \/ StoreSetMany
    \/ StoreReset
    \/ Subscribe
    \/ Unsubscribe
    \/ Microtask

SpecStore == InitStore /\ [][NextStore]_vars

\* how often listener l was called by the last operation
TimesNotified(s, l) == Cardinality({i \in 1..Len(s.notified) : s.notified[i] = l})

Subscribed(s) == {s._listeners[i] : i \in 1..Len(s._listeners)}

\* C23: a set() or setMany() call calls no listener and leaves the snapshot
\* object in place, with the batch callback queued; when the microtask then
\* runs with updates pending, a new snapshot is made that holds all the
\* accumulated states, and every subscribed listener is called exactly once
\* (unless a listener itself calls reset() while being notified, which
\* notifies again).
C23_SetBatchesUntilMicrotask ==
    [][/\ store'.op.name \in {"set", "setMany"} =>
            /\ store'.notified = <<>>
            /\ store'.flushes = 0
            /\ store'._snapshot = store._snapshot
            /\ store'.microtasks = 1
       /\ (store'.op.name = "microtask" /\ store._dirty) =>
            /\ store'.flushes >= 1
            /\ store'.flushes = 1 =>
                  /\ store'._snapshot = store._states
                  /\ \A l \in Subscribed(store) : TimesNotified(store', l) = 1
                  /\ Len(store'.notified) = Len(store._listeners)]_vars

\* one microtask has delivered the states of two actors to two listeners
C23_Witness ==
    /\ store.op.name = "microtask"
    /\ store.flushes = 1
    /\ Len(store.notified) = 2
    /\ DOMAIN store._snapshot = ActorIds
    /\ store._snapshot = store._states


\* C30: whenever no batch callback is left in the microtask queue, the
\* snapshot equals the accumulated states (no update is lost), whatever
\* set(), setMany() and reset() calls came before and whether they came from
\* listeners or between a reset() and a pending callback; reset() makes a
\* snapshot and calls every subscribed listener before it returns; and a batch
\* callback that finds nothing changed since the last flush makes no snapshot
\* and calls no listener.
C30_NothingLostNoEmptyFlush ==
    [][/\ store'.microtasks = 0 => store'._snapshot = store'._states
       /\ store'.op.name = "reset" =>
            /\ store'.flushes >= 1
            /\ \A l \in Subscribed(store) : TimesNotified(store', l) >= 1
       /\ (store'.op.name = "microtask" /\ ~store._dirty) =>
            /\ store'.notified = <<>>
            /\ store'.flushes = 0
            /\ store'._snapshot = store._snapshot]_vars

\* the callback queued by a set() ran after a reset() and found nothing to do,
\* with listeners subscribed and states in the store
C30_Witness ==
    /\ store.op.name = "microtask"
    /\ store.flushes = 0
    /\ store.microtasks = 0
    /\ store._listeners # <<>>
    /\ store._snapshot # <<>>
    /\ store._snapshot = store._states


(* ============================ bundle (C24) ============================ *)
\* JavaScript truthiness of an optional object
truthy(x) == x # undefined

\* truthiness of an optional color string (a sequence of characters)
truthyColor(x) == x # undefined /\ Len(Val(x)) > 0

\* truthiness of an optional name
truthyName(x) == x # undefined /\ Val(x) # ""

\* the keyframe object exportBundle writes for kf
exportKeyframe(kf) ==
    [BareKeyframe(kf.at) EXCEPT
        !.position = IF truthy(kf.position) THEN kf.position ELSE undefined,
        !.scale = kf.scale,
        !.rotation = kf.rotation,
        !.opacity = kf.opacity,
        !.fill = IF truthyColor(kf.fill) THEN kf.fill ELSE undefined,
        !.stroke = IF truthyColor(kf.stroke) THEN kf.stroke ELSE undefined,
        !.strokeWidth = kf.strokeWidth,
        !.strokeAlign = IF truthyName(kf.strokeAlign) THEN kf.strokeAlign ELSE undefined,
        !.blurRadius = kf.blurRadius,
        !.backdropBlur = kf.backdropBlur,
        !.width = kf.width,
        !.height = kf.height,
        !.curve = IF truthyName(kf.curve) THEN kf.curve ELSE undefined]

\* JSON text of a number: a non-finite number is written as null
jsonNumber(q) == IF q.d = 0 THEN "null" ELSE q

\* JSON text of an optional number; an undefined member is left out
jsonOptNumber(x) == IF x = undefined THEN undefined ELSE Some(jsonNumber(Val(x)))

\* JSON text of an optional point or scale
jsonOptPoint(x) ==
    IF x = undefined THEN undefined
    ELSE Some([Val(x) EXCEPT !.x = jsonNumber(@), !.y = jsonNumber(@)])

\* JSON.stringify of an exported keyframe
stringifyKeyframe(kf) ==
    [kf EXCEPT !.position = jsonOptPoint(@), !.scale = jsonOptPoint(@),
               !.rotation = jsonOptNumber(@), !.opacity = jsonOptNumber(@),
               !.strokeWidth = jsonOptNumber(@), !.blurRadius = jsonOptNumber(@),
               !.backdropBlur = jsonOptNumber(@), !.width = jsonOptNumber(@),
               !.height = jsonOptNumber(@)]

\* the bundle text of actors and timelines
exportBundle(actors, timelines) ==
    [version |-> "1.0",
     actors |-> [i \in 1..Len(actors) |->
                    [id |-> actors[i].id, origin |-> actors[i].origin]],
     timelines |-> [i \in 1..Len(timelines) |->
                       [actorId |-> timelines[i].actorId,
                        keyframes |->
                            [k \in 1..Len(timelines[i].keyframes) |->
                                stringifyKeyframe(
                                    exportKeyframe(timelines[i].keyframes[k]))]]]]

\* actors.find(a => a.id === actorId) ?? actors[0]
findActor(actors, actorId) ==
    IF \E i \in 1..Len(actors) : actors[i].id = actorId
      THEN actors[CHOOSE i \in 1..Len(actors) :
                      /\ actors[i].id = actorId
                      /\ \A j \in 1..(i - 1) : actors[j].id # actorId]
      ELSE actors[1]

\* the timelines importBundle rebuilds, timelineCounter being the module's
\* counter before the call
RECURSIVE importTimelines(_, _, _, _)
importTimelines(actors, bts, i, timelineCounter) ==
    IF i > Len(bts) THEN <<>>
    ELSE <<timeline(findActor(actors, bts[i].actorId), Some(bts[i].keyframes),
                    timelineCounter)>>
           \o importTimelines(actors, bts, i + 1, timelineCounter + 1)

importBundle(raw, timelineCounter) ==
    LET built == importTimelines(raw.actors, raw.timelines, 1, timelineCounter)
    IN IF raw.version = ""
         THEN [threw |-> TRUE, timelines |-> <<>>]
       ELSE [threw |-> \E i \in 1..Len(built) : built[i].threw,
             timelines |-> [i \in 1..Len(built) |-> built[i].value]]

(* ------------------- calls of exportBundle, importBundle ---------------- *)
InitBundle ==
    /\ Created({NoTrigger})
    /\ store = NewStore
    /\ \E P \in PatternProperties, len \in 1..MaxKeyframes, family \in CurveFamilies :
          \E times \in AnyTimes(len), only \in [1..len -> BOOLEAN] :
              call = [fn |-> "exportBundle",
                      timelines |->
                          <<Val(timeline(TheActor,
                                         Some(KeyframeList(P, times, only, family)),
                                         0).value)>>,
                      jsonString |-> undefined,
                      returned |-> FALSE, result |-> undefined]

\* exportBundle returns the text
ExportBundle ==
    /\ call.fn = "exportBundle"
    /\ ~call.returned
    /\ call' = [call EXCEPT !.fn = "importBundle",
                            !.jsonString =
                                Some(exportBundle(<<TheActor>>, call.timelines))]
    /\ UNCHANGED <<playbackVars, store>>

\* importBundle returns or throws
ImportBundle ==
    /\ call.fn = "importBundle"
    /\ ~call.returned
    /\ call' = [call EXCEPT !.returned = TRUE,
                            !.result = Some(importBundle(Val(call.jsonString), 1))]
    /\ UNCHANGED <<playbackVars, store>>

NextBundle == ExportBundle \/ ImportBundle

SpecBundle == InitBundle /\ [][NextBundle]_vars

\* C24: once a bundle exported from timelines is imported again, the rebuilt
\* timelines have the keyframes of the original ones: every field defined on
\* an original keyframe (its time, its properties with width, height and
\* pathD, its curve) has the same value on the rebuilt keyframe
C24_RoundTripKeepsKeyframes ==
    Returned("importBundle") =>
        /\ ~Val(call.result).threw
        /\ Len(Val(call.result).timelines) = Len(call.timelines)
        /\ \A t \in 1..Len(call.timelines) :
              LET original == call.timelines[t].keyframes
                  restored == Val(Val(call.result).timelines[t]).keyframes
              IN /\ Len(restored) = Len(original)
                 /\ \A k \in 1..Len(original) :
                       /\ restored[k].at = original[k].at
                       /\ \A F \in KeyframeFields :
                              original[k][F] # undefined
                                  => restored[k][F] = original[k][F]


(* ----------------------- frame requests (C25) ------------------------- *)
\* C25: at every moment at most one frame request of the controller is
\* outstanding, so a frame of the host runs tick at most once and delivers at
\* most one frame event and one update per frame
C25_OneRequestOutstanding ==
    /\ Cardinality(rafPending) <= 1
    /\ op.name = "frame" =>
          /\ Cardinality({i \in 1..Len(events) : events[i].type = "frame"}) <= 1
          /\ Len(updates) <= 1


(* --------------------- counted iterations (C26) ----------------------- *)
\* the cursor is strictly before the bound lying in its direction of motion
BeforeBound ==
    IF direction = 1 THEN currentTime < totalDuration ELSE currentTime > 0

\* C26: a frame counts at most one iteration, and it counts one only when
\* the cursor started the frame before the bound lying in its direction of
\* motion and travelled to it; a cursor that did not move or stayed clamped
\* at a bound consumes no iteration
C26_IterationNeedsTravel ==
    [][op'.name = "frame" =>
          /\ iterationCount' \in {iterationCount, iterationCount + 1}
          /\ iterationCount' = iterationCount + 1 => BeforeBound]_vars


\* C27: every call of balanceCommands and of lerpPath comes to an end,
\* whatever the paths are: also when one of them normalizes to zero segments
\* (a bare move command, an empty string) and the other has segments
C27_BalancingTerminates ==
    (call.fn \in {"balanceCommands", "lerpPath"} /\ call.result # undefined)
        => call.returned


(* ------------------------ cursor range (C28) -------------------------- *)
\* C28: in every state the cursor lies in [0, effective duration], the
\* progress in [0, 1], and every timeline time passed to onUpdate by the
\* last operation lies in [0, tl.duration]
C28_CursorAndUpdatesInRange ==
    /\ 0 <= currentTime
    /\ currentTime <= totalDuration
    /\ progress.d > 0
    /\ 0 <= progress.n
    /\ progress.n <= progress.d
    /\ \A i \in 1..Len(updates) :
          /\ updates[i].d > 0
          /\ 0 <= updates[i].n
          /\ updates[i].n <= TlDuration * updates[i].d


(* ----------------------- time at rest (C29) --------------------------- *)
\* C29: a frame of the host that finds the controller not playing (paused,
\* parked in a loop delay, idle or finished) leaves the cursor and calls no
\* onUpdate; every transition into playing leaves no previous timestamp, and
\* keeps the cursor unless the controller was finished; the one tick of the
\* first frame after it records the timestamp of the frame and moves
\* nothing; play() right after pause() keeps the cursor
C29_RestingTimeNotCounted ==
    /\ [][(op'.name = "frame" /\ state # "playing")
             => /\ currentTime' = currentTime
                /\ state' = state
                /\ updates' = <<>>]_vars
    /\ [][(state # "playing" /\ state' = "playing")
             => /\ lastFrameTime' = NULL
                /\ state # "finished" => currentTime' = currentTime]_vars
    /\ [][(OneTick /\ state = "playing" /\ lastFrameTime = NULL)
             => /\ currentTime' = currentTime
                /\ lastFrameTime' = now'
                /\ state' = "playing"
                /\ updates' = <<>>]_vars
    /\ [][(op.name = "pause" /\ op'.name = "play")
             => currentTime' = currentTime]_vars

\* the first frame after a pause and a play(): the cursor is still midway,
\* where an earlier frame had moved it, although wall time has passed
C29_Witness ==
    /\ op.name = "frame"
    /\ state = "playing"
    /\ lastFrameTime = now
    /\ updates = <<>>
    /\ currentTime = 1
    /\ halted = "no"
    /\ now >= 4
    /\ triggerBinding = NoTrigger

=============================================================================
